---- MODULE Spec2Model ----
(***************************************************************************)
(* Model of the recipe API: the Recipe / Tag / Ingredient stores           *)
(* (app/core/models.py), the recipe serializer's get-or-create             *)
(* reconciliation (app/recipe/serializers.py) and the owner-scoped         *)
(* viewsets (app/recipe/views.py).                                         *)
(*                                                                         *)
(* Spec     : requests are served one after the other; each action is one  *)
(*            whole request handler.                                       *)
(* SpecConc : two recipe writes are served concurrently; the ORM calls of  *)
(*            a handler (get, create, add, clear, save) are the steps.     *)
(*                                                                         *)
(* No handler under app/recipe opens a transaction, so every ORM call is   *)
(* committed on its own (Django's autocommit default).                     *)
(***************************************************************************)
EXTENDS Integers, Sequences, FiniteSets, TLC

VARIABLES
    recipes,           \* Recipe table: id -> row, links included
    tags,              \* Tag table: id -> [name, user]
    ingredients,       \* Ingredient table: id -> [name, user]
    nextRecipeId,      \* auto-increment primary keys
    nextTagId,
    nextIngredientId,
    last,              \* the last request served and its response
    reqs,              \* SpecConc: the requests in flight, per worker
    accounts,          \* User table: id -> [email, password, name]
    tokens,            \* Token table: the ids of the users who have a token
    cmd                \* the wait_for_db command: its position and effects

vars == <<recipes, tags, ingredients, nextRecipeId, nextTagId,
          nextIngredientId, last, reqs, accounts, tokens, cmd>>

dbvars == <<recipes, tags, ingredients, nextRecipeId, nextTagId,
            nextIngredientId>>

----------------------------------------------------------------------------
(* Bounds of the model *)

MaxRecipes == 1
MaxTags == 2
MaxIngredients == 1
MaxDescriptors == 2
MaxInitLabels == 1
MaxListRecipes == 3
MaxAccessRecipes == 2
MaxWorkers == 2

Users == {"u1", "u2"}
Names == {"a", "b"}
Titles == {"t1", "t2"}
Images == {"uploads/recipe/x.jpg"}
NoImage == "null"

\* sequences over S of length at most n
RECURSIVE SeqsUpTo(_, _)
SeqsUpTo(S, n) ==
    IF n = 0 THEN {<<>>}
    ELSE LET shorter == SeqsUpTo(S, n - 1)
         IN  shorter \cup {Append(s, x) : s \in shorter, x \in S}

Range(s) == {s[i] : i \in DOMAIN s}

\* a dict without some of its keys
Without(d, keys) == [k \in DOMAIN d \ keys |-> d[k]]

\* a dict restricted to some keys
Only(d, keys) == [k \in DOMAIN d \cap keys |-> d[k]]

----------------------------------------------------------------------------
(* The database, as the handlers see it *)

DB == [recipes |-> recipes, tags |-> tags, ingredients |-> ingredients,
       nextRecipeId |-> nextRecipeId, nextTagId |-> nextTagId,
       nextIngredientId |-> nextIngredientId]

EmptyTable == <<>>

\* Matching that looks at the name alone
Matching_AnyOwner(table, u, n) == {i \in DOMAIN table : table[i].name = n}

\* objects.filter(user=u, name=n) on a label table
Matching(table, u, n) ==
    {i \in DOMAIN table : table[i].user = u /\ table[i].name = n}

\* the greatest of a non-empty set of ids
MaxOf(S) == CHOOSE i \in S : \A j \in S : i >= j

----------------------------------------------------------------------------
(* Model managers (app/core/models.py) *)

\* Tag / Ingredient row
Label(n, u) == [name |-> n, user |-> u]

\* Recipe.objects.create(**validated_data): the row of a new recipe; the
\* blank=True fields default to '', the image to null, the links to none
Recipe(vd) ==
    [user |-> vd.user,
     title |-> vd.title,
     description |-> IF "description" \in DOMAIN vd THEN vd.description ELSE "",
     time_minutes |-> vd.time_minutes,
     price |-> vd.price,
     link |-> IF "link" \in DOMAIN vd THEN vd.link ELSE "",
     image |-> NoImage,
     tags |-> {},
     ingredients |-> {}]

\* GetOrCreate without the lookup: a new row whatever the table holds
GetOrCreate_NoLookup(table, next, u, n) ==
    [ok |-> TRUE, table |-> table @@ (next :> Label(n, u)),
     next |-> next + 1, obj |-> next]

\* Manager.get_or_create(user=u, name=n) on a label table whose next primary
\* key is next: the one matching row, or a new row when none matches, or
\* MultipleObjectsReturned (ok = FALSE) when several match. The model has no
\* unique constraint on (user, name), so the insert never conflicts.
GetOrCreate(table, next, u, n) ==
    LET found == Matching(table, u, n)
    IN  IF found = {}
        THEN [ok |-> TRUE, table |-> table @@ (next :> Label(n, u)),
              next |-> next + 1, obj |-> next]
        ELSE IF Cardinality(found) = 1
        THEN [ok |-> TRUE, table |-> table, next |-> next,
              obj |-> CHOOSE i \in found : TRUE]
        ELSE [ok |-> FALSE, table |-> table, next |-> next, obj |-> 0]

----------------------------------------------------------------------------
(* RecipeSerializer (app/recipe/serializers.py) *)

\* AddLink that replaces the links by the one added
AddLink_Replace(rs, rid, field, obj) ==
    [rs EXCEPT ![rid][field] = {obj}]

\* recipe.tags.add(obj) / recipe.ingredients.add(obj): the link table holds
\* a link once
AddLink(rs, rid, field, obj) ==
    [rs EXCEPT ![rid][field] = @ \cup {obj}]

\* recipe.tags.clear() / recipe.ingredients.clear()
ClearLinks(rs, rid, field) ==
    [rs EXCEPT ![rid][field] = {}]

\* _get_or_create_tags(tags, recipe) for auth_user u: descriptor by
\* descriptor, get or create the tag and link it; an exception ends the loop
\* and leaves what was written before it
RECURSIVE get_or_create_tags(_, _, _, _)
get_or_create_tags(db, u, descs, rid) ==
    IF descs = <<>> THEN [ok |-> TRUE, db |-> db]
    ELSE LET r == GetOrCreate(db.tags, db.nextTagId, u, Head(descs).name)
         IN  IF ~r.ok THEN [ok |-> FALSE, db |-> db]
             ELSE get_or_create_tags(
                    [db EXCEPT !.tags = r.table, !.nextTagId = r.next,
                               !.recipes = AddLink(@, rid, "tags", r.obj)],
                    u, Tail(descs), rid)

\* _get_or_create_ingredients(ingredients, recipe) for auth_user u
RECURSIVE get_or_create_ingredients(_, _, _, _)
get_or_create_ingredients(db, u, descs, rid) ==
    IF descs = <<>> THEN [ok |-> TRUE, db |-> db]
    ELSE LET r == GetOrCreate(db.ingredients, db.nextIngredientId, u,
                              Head(descs).name)
         IN  IF ~r.ok THEN [ok |-> FALSE, db |-> db]
             ELSE get_or_create_ingredients(
                    [db EXCEPT !.ingredients = r.table,
                               !.nextIngredientId = r.next,
                               !.recipes = AddLink(@, rid, "ingredients", r.obj)],
                    u, Tail(descs), rid)

LinkKeys == {"tags", "ingredients"}

\* RecipeSerializer.create(validated_data) with request.user = u
create(db, u, vd) ==
    LET tagDescs == IF "tags" \in DOMAIN vd THEN vd.tags ELSE <<>>
        ingDescs == IF "ingredients" \in DOMAIN vd THEN vd.ingredients ELSE <<>>
        rid == db.nextRecipeId
        db1 == [db EXCEPT !.recipes = @ @@ (rid :> Recipe(Without(vd, LinkKeys))),
                          !.nextRecipeId = @ + 1]
        r1 == get_or_create_tags(db1, u, tagDescs, rid)
        r2 == IF r1.ok THEN get_or_create_ingredients(r1.db, u, ingDescs, rid)
              ELSE r1
    IN  [ok |-> r2.ok, db |-> r2.db, id |-> rid]

\* SetAttrs that gives a field the payload lacks its default
SetAttrs_Defaults(row, vd) ==
    [k \in DOMAIN row |->
        IF k \in DOMAIN vd THEN vd[k]
        ELSE IF k \in {"description", "link"} THEN "" ELSE row[k]]

\* for attr, value in validated_data.items(): setattr(instance, attr, value)
SetAttrs(row, vd) ==
    [k \in DOMAIN row |-> IF k \in DOMAIN vd THEN vd[k] ELSE row[k]]

\* update without the clear() calls
update_NoClear(db, u, rid, vd) ==
    LET r1 == IF "tags" \in DOMAIN vd
              THEN get_or_create_tags(db, u, vd.tags, rid)
              ELSE [ok |-> TRUE, db |-> db]
        r2 == IF ~r1.ok THEN r1
              ELSE IF "ingredients" \in DOMAIN vd
              THEN get_or_create_ingredients(r1.db, u, vd.ingredients, rid)
              ELSE r1
    IN  IF ~r2.ok THEN r2
        ELSE [ok |-> TRUE,
              db |-> [r2.db EXCEPT !.recipes[rid] =
                                      SetAttrs(@, Without(vd, LinkKeys))]]

\* update testing `if tags:` for `if tags is not None:`, an empty list
\* taken as no list
update_Truthy(db, u, rid, vd) ==
    LET r1 == IF "tags" \in DOMAIN vd /\ vd.tags # <<>>
              THEN get_or_create_tags(
                     [db EXCEPT !.recipes = ClearLinks(@, rid, "tags")],
                     u, vd.tags, rid)
              ELSE [ok |-> TRUE, db |-> db]
        r2 == IF ~r1.ok THEN r1
              ELSE IF "ingredients" \in DOMAIN vd /\ vd.ingredients # <<>>
              THEN get_or_create_ingredients(
                     [r1.db EXCEPT !.recipes = ClearLinks(@, rid, "ingredients")],
                     u, vd.ingredients, rid)
              ELSE r1
    IN  IF ~r2.ok THEN r2
        ELSE [ok |-> TRUE,
              db |-> [r2.db EXCEPT !.recipes[rid] =
                                      SetAttrs(@, Without(vd, LinkKeys))]]

\* RecipeSerializer.update(instance, validated_data) with request.user = u
update(db, u, rid, vd) ==
    LET r1 == IF "tags" \in DOMAIN vd
              THEN get_or_create_tags(
                     [db EXCEPT !.recipes = ClearLinks(@, rid, "tags")],
                     u, vd.tags, rid)
              ELSE [ok |-> TRUE, db |-> db]
        r2 == IF ~r1.ok THEN r1
              ELSE IF "ingredients" \in DOMAIN vd
              THEN get_or_create_ingredients(
                     [r1.db EXCEPT !.recipes = ClearLinks(@, rid, "ingredients")],
                     u, vd.ingredients, rid)
              ELSE r1
    IN  IF ~r2.ok THEN r2
        ELSE [ok |-> TRUE,
              db |-> [r2.db EXCEPT !.recipes[rid] =
                                      SetAttrs(@, Without(vd, LinkKeys))]]

----------------------------------------------------------------------------
(* Request validation (serializer.is_valid), RecipeDetailSerializer.Meta *)

\* the fields a recipe payload may set; any other key is dropped (image
\* takes an uploaded file, which no JSON payload carries)
WritableFields ==
    {"title", "time_minutes", "price", "link", "tags", "ingredients",
     "description"}

\* the model fields with neither a default nor blank=True
RequiredFields == {"title", "time_minutes", "price"}

\* Validated that keeps every key of the payload
Validated_All(data) == data

\* serializer.validated_data
Validated(data) == Only(data, WritableFields)

\* the fields of a payload that are no field of the serializer
Dropped(data) == Only(data, {"user"})

\* serializer.is_valid(): every required field is there unless partial
IsValid(data, partial) == partial \/ RequiredFields \subseteq DOMAIN data

----------------------------------------------------------------------------
(* RecipeViewSet (app/recipe/views.py) *)

\* int(str_id) for the ids of the model
IntOf(str) ==
    CASE str = "0" -> 0 [] str = "1" -> 1 [] str = "2" -> 2 [] str = "3" -> 3
      [] str = "4" -> 4

\* _params_to_ints(qs): qs is the comma-separated string, given as the
\* sequence of its parts
params_to_ints(qs) == [i \in DOMAIN qs |-> IntOf(qs[i])]

\* queryset.filter(<field>__id__in=ids) on rows, a bag of recipe ids: the
\* join yields a recipe once per link that matches
FilterLinkIn(db, rows, field, ids) ==
    LET n(i) == rows[i] * Cardinality(db.recipes[i][field] \cap Range(ids))
    IN  [i \in {j \in DOMAIN rows : n(j) > 0} |-> n(i)]

\* FilterUser that filters nothing
FilterUser_None(db, rows, u) == rows

\* queryset.filter(user=u)
FilterUser(db, rows, u) ==
    [i \in {j \in DOMAIN rows : db.recipes[j].user = u} |-> rows[i]]

\* queryset.order_by('-id'): the rows as a list, greatest id first
RECURSIVE OrderByDescId(_)
OrderByDescId(rows) ==
    IF DOMAIN rows = {} THEN <<>>
    ELSE LET m == MaxOf(DOMAIN rows)
         IN  [k \in 1..rows[m] |-> m] \o OrderByDescId(Without(rows, {m}))

\* Distinct that keeps every row
Distinct_None(list) == list

\* queryset.distinct(): equal rows once, in order
RECURSIVE Distinct(_)
Distinct(list) ==
    IF list = <<>> THEN <<>>
    ELSE LET init == Distinct(SubSeq(list, 1, Len(list) - 1))
             x == list[Len(list)]
         IN  IF x \in Range(init) THEN init ELSE Append(init, x)

\* RecipeViewSet.get_queryset() for request.user = u and query_params
get_queryset(db, u, params) ==
    LET q0 == [i \in DOMAIN db.recipes |-> 1]
        q1 == IF "tags" \in DOMAIN params /\ params.tags # <<>>
              THEN FilterLinkIn(db, q0, "tags", params_to_ints(params.tags))
              ELSE q0
        q2 == IF "ingredients" \in DOMAIN params /\ params.ingredients # <<>>
              THEN FilterLinkIn(db, q1, "ingredients",
                                params_to_ints(params.ingredients))
              ELSE q1
    IN  Distinct(OrderByDescId(FilterUser(db, q2, u)))

NoParams == [k \in {} |-> <<>>]
NoData == [k \in {} |-> 0]

\* Found looking in Recipe.objects.all()
Found_Any(db, u, rid) == rid \in DOMAIN db.recipes

\* get_object(): the row of get_queryset() with pk = rid, else Http404
Found(db, u, rid) == rid \in Range(get_queryset(db, u, NoParams))

\* what a handler leaves: the database, and the response's status, the id
\* of the object it is about and the ids it lists
Result(db, status, id, body) ==
    [db |-> db, status |-> status, id |-> id, body |-> body]

\* ViewCreate that takes the owner from the payload when it names one
ViewCreate_PayloadUser(db, u, data) ==
    IF ~IsValid(data, FALSE) THEN Result(db, 400, 0, <<>>)
    ELSE LET r == create(db, u, Validated(data) @@ Dropped(data) @@ [user |-> u])
         IN  Result(r.db, IF r.ok THEN 201 ELSE 500, r.id, <<>>)

\* POST /recipe/recipes/ : CreateModelMixin.create, and perform_create's
\* serializer.save(user=self.request.user)
ViewCreate(db, u, data) ==
    IF ~IsValid(data, FALSE) THEN Result(db, 400, 0, <<>>)
    ELSE LET r == create(db, u, Validated(data) @@ [user |-> u])
         IN  Result(r.db, IF r.ok THEN 201 ELSE 500, r.id, <<>>)

\* PUT (partial = FALSE) or PATCH (partial = TRUE) /recipe/recipes/<rid>/ :
\* UpdateModelMixin.update
ViewUpdate(db, u, rid, data, partial) ==
    IF ~Found(db, u, rid) THEN Result(db, 404, rid, <<>>)
    ELSE IF ~IsValid(data, partial) THEN Result(db, 400, rid, <<>>)
    ELSE LET r == update(db, u, rid, Validated(data))
         IN  Result(r.db, IF r.ok THEN 200 ELSE 500, rid, <<>>)

\* ViewDestroy deleting the recipe's tags with it
ViewDestroy_Cascade(db, u, rid) ==
    IF ~Found(db, u, rid) THEN Result(db, 404, rid, <<>>)
    ELSE Result([db EXCEPT !.recipes = Without(@, {rid}),
                           !.tags = Without(@, db.recipes[rid].tags)],
                204, rid, <<>>)

\* DELETE /recipe/recipes/<rid>/ : DestroyModelMixin.destroy; the recipe's
\* link rows go with it
ViewDestroy(db, u, rid) ==
    IF ~Found(db, u, rid) THEN Result(db, 404, rid, <<>>)
    ELSE Result([db EXCEPT !.recipes = Without(@, {rid})], 204, rid, <<>>)

\* GET /recipe/recipes/<rid>/ : RetrieveModelMixin.retrieve
ViewRetrieve(db, u, rid) ==
    IF ~Found(db, u, rid) THEN Result(db, 404, rid, <<>>)
    ELSE Result(db, 200, rid, <<rid>>)

\* GET /recipe/recipes/?tags=..&ingredients=.. : ListModelMixin.list
ViewList(db, u, params) ==
    Result(db, 200, 0, get_queryset(db, u, params))

\* upload_image that saves without is_valid()
upload_image_NoValidation(db, u, rid, data) ==
    IF ~Found(db, u, rid) THEN Result(db, 404, rid, <<>>)
    ELSE Result([db EXCEPT !.recipes[rid].image =
                    IF "image" \in DOMAIN data /\ data.image # ""
                    THEN data.image ELSE NoImage],
                200, rid, <<>>)

\* POST /recipe/recipes/<rid>/upload-image/ : RecipeViewSet.upload_image
upload_image(db, u, rid, data) ==
    IF ~Found(db, u, rid) THEN Result(db, 404, rid, <<>>)
    ELSE IF ~("image" \in DOMAIN data /\ data.image # "")
    THEN Result(db, 400, rid, <<>>)
    ELSE Result([db EXCEPT !.recipes[rid].image = data.image], 200, rid, <<>>)

----------------------------------------------------------------------------
(* TagViewSet, IngredientViewSet (BaseRecipeAttrViewSet) *)

\* BaseRecipeAttrViewSet.get_queryset() without assigned_only, as the set of
\* ids get_object() looks in
OwnLabels(table, u) == {i \in DOMAIN table : table[i].user = u}

\* the recipes linked to a label
LinkedBy(db, kind, id) == {i \in DOMAIN db.recipes : id \in db.recipes[i][kind]}

\* PUT / PATCH /recipe/tags/<id>/ or /recipe/ingredients/<id>/ (kind names
\* the table): the name is the one writable field
LabelUpdate(db, kind, u, id, data) ==
    IF id \notin OwnLabels(db[kind], u) THEN Result(db, 404, id, <<>>)
    ELSE Result([db EXCEPT ![kind][id].name =
                    IF "name" \in DOMAIN data THEN data.name ELSE @],
                200, id, <<>>)

\* LabelDestroy that leaves the link rows
LabelDestroy_KeepLinks(db, kind, u, id) ==
    IF id \notin OwnLabels(db[kind], u) THEN Result(db, 404, id, <<>>)
    ELSE Result([db EXCEPT ![kind] = Without(@, {id})], 204, id, <<>>)

\* DELETE /recipe/tags/<id>/ or /recipe/ingredients/<id>/ : the label's link
\* rows go with it
LabelDestroy(db, kind, u, id) ==
    IF id \notin OwnLabels(db[kind], u) THEN Result(db, 404, id, <<>>)
    ELSE Result([db EXCEPT ![kind] = Without(@, {id}),
                           !.recipes = [i \in DOMAIN @ |->
                                           [@[i] EXCEPT ![kind] = @ \ {id}]]],
                204, id, <<>>)

----------------------------------------------------------------------------
(* The requests of the model *)

Descriptors == {[name |-> n] : n \in Names}

\* nested tags / ingredients payloads, a repeated name included
DescriptorLists == SeqsUpTo(Descriptors, MaxDescriptors)

\* the dicts over some of the keys K, key k taking a value of vals[k]
RECURSIVE DictsOver(_, _)
DictsOver(vals, K) ==
    IF K = {} THEN {[k \in {} |-> 0]}
    ELSE LET k == CHOOSE x \in K : TRUE
             rest == DictsOver(vals, K \ {k})
         IN  rest \cup {d @@ (k :> v) : d \in rest, v \in vals[k]}

PartialDicts(vals) == DictsOver(vals, DOMAIN vals)

\* the number of descriptors a payload lists
Listed(d) ==
    (IF "tags" \in DOMAIN d THEN Len(d.tags) ELSE 0)
    + (IF "ingredients" \in DOMAIN d THEN Len(d.ingredients) ELSE 0)

\* the nested lists of a payload: each key absent, empty or filled, at most
\* MaxDescriptors descriptors in all
LinkData ==
    {d \in PartialDicts([tags |-> DescriptorLists,
                         ingredients |-> DescriptorLists]) :
        Listed(d) <= MaxDescriptors}

Scalars(t) == [title |-> t, time_minutes |-> 22, price |-> 525]

\* POST payloads: the required scalars and any nested lists, and one that
\* lacks the title
CreateData ==
    {Scalars("t1") @@ l : l \in LinkData} \cup {[time_minutes |-> 22, price |-> 525]}

\* PUT payloads
PutData ==
    {Scalars(t) : t \in Titles}
    \cup {Scalars("t1") @@ [tags |-> <<[name |-> n]>>] : n \in Names}
    \cup {[time_minutes |-> 22, price |-> 525]}

\* PATCH payloads: the nested lists, the title, both
PatchData ==
    LinkData \cup {[title |-> t] : t \in Titles}
    \cup {[title |-> "t2", tags |-> <<[name |-> n]>>] : n \in Names}

NameData == {[name |-> n] : n \in Names}

----------------------------------------------------------------------------
(* Requests served one after the other *)

\* the handler's writes reach the database and its response the client;
\* last keeps the response, the query parameters (for a recipe write, the
\* part of the payload the serializer drops) and, in had, the label keys not yet
\* handed out when the request came
Commit(db) ==
    /\ recipes' = db.recipes
    /\ tags' = db.tags
    /\ ingredients' = db.ingredients
    /\ nextRecipeId' = db.nextRecipeId
    /\ nextTagId' = db.nextTagId
    /\ nextIngredientId' = db.nextIngredientId

Answer(op, params, status, id, body) ==
    last' = [op |-> op, params |-> params, status |-> status,
             id |-> id, body |-> body,
             had |-> [tags |-> nextTagId, ingredients |-> nextIngredientId]]

Serve(op, params, r) ==
    /\ Commit(r.db)
    /\ Answer(op, params, r.status, r.id, r.body)
    /\ UNCHANGED <<reqs, accounts, tokens, cmd>>

RecipeCreate(u, data) == Serve("create", Dropped(data), ViewCreate(DB, u, data))

RecipeUpdate(u, rid, data) ==
    Serve("update", Dropped(data), ViewUpdate(DB, u, rid, data, FALSE))

RecipePartialUpdate(u, rid, data) ==
    Serve("partial_update", Dropped(data), ViewUpdate(DB, u, rid, data, TRUE))

RecipeDestroy(u, rid) == Serve("destroy", NoParams, ViewDestroy(DB, u, rid))

RecipeRetrieve(u, rid) == Serve("retrieve", NoParams, ViewRetrieve(DB, u, rid))

RecipeList(u, params) == Serve("list", params, ViewList(DB, u, params))

RecipeUploadImage(u, rid, data) ==
    Serve("upload_image", NoParams, upload_image(DB, u, rid, data))

TagUpdate(u, id, data) == Serve("tag_update", NoParams, LabelUpdate(DB, "tags", u, id, data))

\* the recipes linked to the label when a delete request comes, kept in
\* last.params
Linked(kind, id) == [linked |-> LinkedBy(DB, kind, id)]

TagDestroy(u, id) ==
    Serve("tag_destroy", Linked("tags", id), LabelDestroy(DB, "tags", u, id))

IngredientUpdate(u, id, data) ==
    Serve("ingredient_update", NoParams, LabelUpdate(DB, "ingredients", u, id, data))

IngredientDestroy(u, id) ==
    Serve("ingredient_destroy", Linked("ingredients", id),
          LabelDestroy(DB, "ingredients", u, id))

\* the wait_for_db command before handle() runs: its position, db_up, the
\* arguments of the checks made, the errors raised, the sleeps made (their
\* seconds) and what it wrote to stdout
CommandStart ==
    [pc |-> "start", db_up |-> FALSE, checks |-> <<>>, raised |-> <<>>,
     sleeps |-> <<>>, out |-> <<>>]

\* a label table of rows 1..k
Tables(k) == [1..k -> {Label(n, u) : n \in Names, u \in Users}]

\* label tables as earlier recipe writes leave them: at most MaxInitLabels
\* rows, no two with the same owner and name
InitTables ==
    {t \in UNION {Tables(k) : k \in 0..MaxInitLabels} :
        \A i, j \in DOMAIN t : t[i] = t[j] => i = j}

\* no recipe yet; the labels of recipes since deleted may be there
Init ==
    /\ recipes = EmptyTable
    /\ tags \in InitTables
    /\ ingredients \in InitTables
    /\ nextRecipeId = 1
    /\ nextTagId = Cardinality(DOMAIN tags) + 1
    /\ nextIngredientId = Cardinality(DOMAIN ingredients) + 1
    /\ last = [op |-> "none", params |-> NoParams, status |-> 0, id |-> 0,
                body |-> <<>>,
                had |-> [tags |-> nextTagId, ingredients |-> nextIngredientId]]
    /\ reqs = <<>>
    /\ accounts = <<>>
    /\ tokens = {}
    /\ cmd = CommandStart

\* the model's bound on the tables: the primary keys handed out so far
Within(maxRecipes, maxTags, maxIngredients) ==
    /\ nextRecipeId' <= maxRecipes + 1
    /\ nextTagId' <= maxTags + 1
    /\ nextIngredientId' <= maxIngredients + 1

Bounded == Within(MaxRecipes, MaxTags, MaxIngredients)

\* the recipe ids of a request: those handed out and the next, which no
\* recipe has
RecipeIds == 1..nextRecipeId
TagIds == 1..nextTagId
IngredientIds == 1..nextIngredientId

Next ==
    \/ \E u \in Users, data \in CreateData : RecipeCreate(u, data) /\ Bounded
    \/ \E u \in Users, rid \in RecipeIds, data \in PutData :
          RecipeUpdate(u, rid, data) /\ Bounded
    \/ \E u \in Users, rid \in RecipeIds, data \in PatchData :
          RecipePartialUpdate(u, rid, data) /\ Bounded
    \/ \E u \in Users, rid \in RecipeIds : RecipeDestroy(u, rid)
    \/ \E u \in Users, id \in TagIds, data \in NameData : TagUpdate(u, id, data)
    \/ \E u \in Users, id \in IngredientIds, data \in NameData :
          IngredientUpdate(u, id, data)

Spec == Init /\ [][Next]_vars

----------------------------------------------------------------------------
(* SpecList: recipes are created, deleted and listed *)

\* ?tags= / ?ingredients= values: one id or two
ListParams ==
    PartialDicts([tags |-> {<<"1">>, <<"2">>, <<"1", "2">>},
                  ingredients |-> {<<"1">>}])

\* POST payloads that list up to two tags and up to one ingredient
ListCreateData ==
    {Scalars("t1") @@ l :
        l \in PartialDicts(
                [tags |-> {<<[name |-> "a"]>>, <<[name |-> "b"]>>,
                           <<[name |-> "a"], [name |-> "b"]>>},
                 ingredients |-> {<<[name |-> "a"]>>}])}

InitFresh == Init /\ tags = <<>> /\ ingredients = <<>>

NextList ==
    \/ \E u \in Users, data \in ListCreateData :
          RecipeCreate(u, data) /\ Within(MaxListRecipes, MaxTags, MaxIngredients)
    \/ \E u \in Users, rid \in RecipeIds : RecipeDestroy(u, rid)
    \/ \E u \in Users, params \in ListParams : RecipeList(u, params)
    \/ \E u \in Users, id \in TagIds : TagDestroy(u, id)
    \/ \E u \in Users, id \in IngredientIds : IngredientDestroy(u, id)

SpecList == InitFresh /\ [][NextList]_vars

----------------------------------------------------------------------------
(* SpecAccess: both users address every recipe *)

AccessCreateData ==
    {Scalars("t1"), Scalars("t1") @@ [tags |-> <<[name |-> "a"]>>]}

AccessPatchData ==
    {[title |-> t] : t \in Titles}
    \cup {[tags |-> <<>>], [tags |-> <<[name |-> "a"]>>]}

ImageData == {[image |-> i] : i \in Images} \cup {NoData}

NextAccess ==
    \/ \E u \in Users, data \in AccessCreateData :
          RecipeCreate(u, data) /\ Within(MaxAccessRecipes, MaxTags, MaxIngredients)
    \/ \E u \in Users, rid \in RecipeIds, data \in PutData :
          RecipeUpdate(u, rid, data) /\ Within(MaxAccessRecipes, MaxTags, MaxIngredients)
    \/ \E u \in Users, rid \in RecipeIds, data \in AccessPatchData :
          RecipePartialUpdate(u, rid, data)
             /\ Within(MaxAccessRecipes, MaxTags, MaxIngredients)
    \/ \E u \in Users, rid \in RecipeIds : RecipeDestroy(u, rid)
    \/ \E u \in Users, rid \in RecipeIds : RecipeRetrieve(u, rid)
    \/ \E u \in Users, rid \in RecipeIds, data \in ImageData :
          RecipeUploadImage(u, rid, data)

SpecAccess == InitFresh /\ [][NextAccess]_vars

----------------------------------------------------------------------------
(* SpecConc: recipe writes served at once by MaxWorkers workers. Each ORM  *)
(* call of RecipeSerializer.create / update is a step, committed as it is  *)
(* made; get_or_create is its lookup and, on a miss, its insert.           *)

Workers == 1..MaxWorkers

Idle ==
    [pc |-> "idle", op |-> "none", user |-> "u1", rid |-> 0, vd |-> NoData,
     kind |-> "tags", descs |-> <<>>, obj |-> 0, instance |-> NoData,
     status |-> 0]

NextKey(k) == IF k = "tags" THEN "nextTagId" ELSE "nextIngredientId"

\* where control goes when it reaches the block of kind k ("end": past
\* both), and when it reaches the head of the loop over descs
RECURSIVE Enter(_, _), Loop(_)
Enter(req, k) ==
    IF k = "end"
    THEN IF req.op = "create"
         THEN [req EXCEPT !.pc = "respond", !.status = 201]
         ELSE [req EXCEPT !.pc = "save"]
    ELSE LET next == IF k = "tags" THEN "ingredients" ELSE "end"
         IN  IF req.op = "create"
             THEN Loop([req EXCEPT !.kind = k,
                          !.descs = IF k \in DOMAIN req.vd THEN req.vd[k] ELSE <<>>])
             ELSE IF k \in DOMAIN req.vd
             THEN [req EXCEPT !.kind = k, !.descs = req.vd[k], !.pc = "clear"]
             ELSE Enter(req, next)
Loop(req) ==
    IF req.descs = <<>>
    THEN Enter(req, IF req.kind = "tags" THEN "ingredients" ELSE "end")
    ELSE [req EXCEPT !.pc = "get"]

\* create: validated_data.pop(...), Recipe.objects.create(**validated_data)
ConcCreate(w, u, data) ==
    /\ reqs[w].pc = "idle"
    /\ IsValid(data, FALSE)
    /\ recipes' = recipes @@
          (nextRecipeId :> Recipe(Without(Validated(data) @@ [user |-> u], LinkKeys)))
    /\ nextRecipeId' = nextRecipeId + 1
    /\ reqs' = [reqs EXCEPT ![w] =
                  Enter([Idle EXCEPT !.op = "create", !.user = u,
                           !.rid = nextRecipeId, !.vd = Validated(data)],
                        "tags")]
    /\ UNCHANGED <<tags, ingredients, nextTagId, nextIngredientId, last,
                   accounts, tokens, cmd>>

\* partial update: get_object(), then update's validated_data.pop(...)
ConcUpdate(w, u, rid, data) ==
    /\ reqs[w].pc = "idle"
    /\ reqs' = [reqs EXCEPT ![w] =
                  IF ~Found(DB, u, rid)
                  THEN [Idle EXCEPT !.op = "partial_update", !.user = u,
                          !.rid = rid, !.pc = "respond", !.status = 404]
                  ELSE Enter([Idle EXCEPT !.op = "partial_update", !.user = u,
                                !.rid = rid, !.vd = Validated(data),
                                !.instance = recipes[rid]],
                             "tags")]
    /\ UNCHANGED <<dbvars, last, accounts, tokens, cmd>>

\* instance.tags.clear() / instance.ingredients.clear()
ConcClear(w) ==
    /\ reqs[w].pc = "clear"
    /\ recipes' = ClearLinks(recipes, reqs[w].rid, reqs[w].kind)
    /\ reqs' = [reqs EXCEPT ![w] = Loop(@)]
    /\ UNCHANGED <<tags, ingredients, nextRecipeId, nextTagId,
                   nextIngredientId, last, accounts, tokens, cmd>>

\* get_or_create: the lookup
ConcGet(w) ==
    /\ reqs[w].pc = "get"
    /\ LET found == Matching(DB[reqs[w].kind], reqs[w].user,
                             Head(reqs[w].descs).name)
       IN  reqs' = [reqs EXCEPT ![w] =
                      IF found = {} THEN [@ EXCEPT !.pc = "insert"]
                      ELSE IF Cardinality(found) = 1
                      THEN [@ EXCEPT !.pc = "add",
                                     !.obj = CHOOSE i \in found : TRUE]
                      ELSE [@ EXCEPT !.pc = "respond", !.status = 500]]
    /\ UNCHANGED <<dbvars, last, accounts, tokens, cmd>>

\* get_or_create: the insert after a miss; no constraint stops a second row
\* of the same owner and name
ConcInsert(w) ==
    /\ reqs[w].pc = "insert"
    /\ LET k == reqs[w].kind
           id == DB[NextKey(k)]
       IN  /\ Commit([DB EXCEPT
                        ![k] = @ @@ (id :> Label(Head(reqs[w].descs).name,
                                                 reqs[w].user)),
                        ![NextKey(k)] = @ + 1])
           /\ reqs' = [reqs EXCEPT ![w].pc = "add", ![w].obj = id]
    /\ UNCHANGED <<last, accounts, tokens, cmd>>

\* recipe.tags.add(tag_obj) / recipe.ingredients.add(ingredient_obj)
ConcAdd(w) ==
    /\ reqs[w].pc = "add"
    /\ recipes' = AddLink(recipes, reqs[w].rid, reqs[w].kind, reqs[w].obj)
    /\ reqs' = [reqs EXCEPT ![w] = Loop([@ EXCEPT !.descs = Tail(@)])]
    /\ UNCHANGED <<tags, ingredients, nextRecipeId, nextTagId,
                   nextIngredientId, last, accounts, tokens, cmd>>

ScalarFields == {"title", "description", "time_minutes", "price", "link"}

\* update: setattr(...) on the instance loaded by get_object(), and
\* instance.save(), which writes the instance's columns
ConcSave(w) ==
    /\ reqs[w].pc = "save"
    /\ LET row == SetAttrs(reqs[w].instance, Without(reqs[w].vd, LinkKeys))
       IN  recipes' = [recipes EXCEPT ![reqs[w].rid] =
                         [k \in DOMAIN @ |->
                             IF k \in LinkKeys THEN @[k] ELSE row[k]]]
    /\ reqs' = [reqs EXCEPT ![w].pc = "respond", ![w].status = 200]
    /\ UNCHANGED <<tags, ingredients, nextRecipeId, nextTagId,
                   nextIngredientId, last, accounts, tokens, cmd>>

\* the response leaves
ConcRespond(w) ==
    /\ reqs[w].pc = "respond"
    /\ Answer(reqs[w].op, NoParams, reqs[w].status, reqs[w].rid, <<>>)
    /\ reqs' = [reqs EXCEPT ![w].pc = "done"]
    /\ UNCHANGED <<dbvars, accounts, tokens, cmd>>

\* payloads naming one label or two
ConcLinkData ==
    {[tags |-> <<[name |-> "a"]>>],
     [tags |-> <<[name |-> "a"], [name |-> "b"]>>],
     [ingredients |-> <<[name |-> "a"]>>],
     [tags |-> <<[name |-> "b"]>>, ingredients |-> <<[name |-> "a"]>>]}

InitConc ==
    /\ recipes = EmptyTable /\ tags = EmptyTable /\ ingredients = EmptyTable
    /\ nextRecipeId = 1 /\ nextTagId = 1 /\ nextIngredientId = 1
    /\ last = [op |-> "none", params |-> NoParams, status |-> 0, id |-> 0,
               body |-> <<>>, had |-> [tags |-> 1, ingredients |-> 1]]
    /\ reqs = [w \in Workers |-> Idle]
    /\ accounts = <<>>
    /\ tokens = {}
    /\ cmd = CommandStart

NextConc ==
    \/ \E w \in Workers, u \in Users, l \in ConcLinkData :
          ConcCreate(w, u, Scalars("t1") @@ l)
    \/ \E w \in Workers, u \in Users, rid \in RecipeIds, l \in ConcLinkData :
          ConcUpdate(w, u, rid, l)
    \/ \E w \in Workers :
          \/ ConcClear(w)
          \/ ConcGet(w)
          \/ ConcInsert(w)
          \/ ConcAdd(w)
          \/ ConcSave(w)
          \/ ConcRespond(w)

SpecConc == InitConc /\ [][NextConc]_vars

----------------------------------------------------------------------------
(* SpecFields: the scalar fields, the owner and the image of a recipe *)

MaxFieldRecipes == 1

FieldImages == Images \cup {"uploads/recipe/y.png"}

\* POST payloads: the required scalars alone, with the optional ones, with
\* a tag and an ingredient
FieldCreateData ==
    {Scalars("t1"),
     Scalars("t1") @@ [description |-> "d1", link |-> "l1"],
     Scalars("t1") @@ [link |-> "l1", tags |-> <<[name |-> "a"]>>,
                       ingredients |-> <<[name |-> "b"]>>]}

\* PATCH payloads: any of the scalar fields, with or without a user
FieldPatchData ==
    PartialDicts([title |-> {"t2"}, description |-> {"d2"},
                  time_minutes |-> {30}, price |-> {700}, link |-> {"l2"},
                  user |-> Users])

\* PUT payloads: the required scalars, with or without a link and a user
FieldPutData ==
    {Scalars("t2") @@ d : d \in PartialDicts([link |-> {"l2"}, user |-> Users])}

\* upload payloads: a file, an empty image field, no image field
FieldImageData == {[image |-> i] : i \in FieldImages \cup {""}} \cup {NoData}

NextFields ==
    \/ \E u \in Users, data \in FieldCreateData :
          RecipeCreate(u, data) /\ Within(MaxFieldRecipes, MaxTags, MaxIngredients)
    \/ \E u \in Users, rid \in RecipeIds, data \in FieldPutData :
          RecipeUpdate(u, rid, data)
    \/ \E u \in Users, rid \in RecipeIds, data \in FieldPatchData :
          RecipePartialUpdate(u, rid, data)
    \/ \E u \in Users, rid \in RecipeIds : RecipeDestroy(u, rid)
    \/ \E u \in Users, rid \in RecipeIds, data \in FieldImageData :
          RecipeUploadImage(u, rid, data)

SpecFields == InitFresh /\ [][NextFields]_vars

----------------------------------------------------------------------------
(* The user model and its manager (app/core/models.py) *)

MaxEmailLen == 3
MaxAccounts == 2
MaxManagerUsers == 2

\* an email is the sequence of its characters
Chars == {"a", "b", "B", "@"}

\* str.lower() on a character
Lower(c) == IF c = "B" THEN "b" ELSE c

AllEmails == SeqsUpTo(Chars, MaxEmailLen)

Passwords == {"1234", "12345", "abcdef"}

\* the positions of "@" in an email
Ats(email) == {i \in DOMAIN email : email[i] = "@"}

\* normalize_email that lowercases the whole address
normalize_email_Lower(email) == [i \in DOMAIN email |-> Lower(email[i])]

\* BaseUserManager.normalize_email(email): email.rsplit('@', 1), and the
\* part after the last "@" lowercased; an email without "@" is left alone
normalize_email(email) ==
    IF Ats(email) = {} THEN email
    ELSE LET k == MaxOf(Ats(email))
         IN  [i \in DOMAIN email |-> IF i > k THEN Lower(email[i]) ELSE email[i]]

\* set_password(raw): the stored password is a hash of the raw one
Hash(raw) == <<"hash", raw>>

\* check_password(raw) on a stored password
CheckPassword(raw, stored) == stored = Hash(raw)

\* the accounts with an email
WithEmail(accts, email) == {i \in DOMAIN accts : accts[i].email = email}

\* the next primary key of the user table (no request deletes a user)
NextUserId(accts) == Cardinality(DOMAIN accts) + 1

\* UserManager.create_user(email, password, **extra_fields): ValueError
\* without an email; user.save() raises IntegrityError when the email
\* (unique=True) is taken
create_user(accts, email, password, extra) ==
    IF email = <<>> THEN [ok |-> FALSE, error |-> "ValueError", accounts |-> accts, id |-> 0]
    ELSE LET user == [email |-> normalize_email(email),
                      password |-> Hash(password),
                      name |-> IF "name" \in DOMAIN extra THEN extra.name ELSE "",
                      is_active |-> TRUE, is_staff |-> FALSE,
                      is_superuser |-> FALSE]
         IN  IF WithEmail(accts, user.email) # {}
             THEN [ok |-> FALSE, error |-> "IntegrityError", accounts |-> accts, id |-> 0]
             ELSE [ok |-> TRUE, error |-> "",
                   accounts |-> accts @@ (NextUserId(accts) :> user),
                   id |-> NextUserId(accts)]

----------------------------------------------------------------------------
(* UserSerializer, AuthTokenSerializer (app/user/serializers.py) *)

\* EmailField: one "@", something before it and something after
ValidEmail(email) ==
    /\ Cardinality(Ats(email)) = 1
    /\ email[1] # "@" /\ email[Len(email)] # "@"

UserFields == {"email", "password", "name"}

PasswordMinLength == 5

\* the error, if any, the serializer finds in field f of a payload; id is
\* the instance updated, 0 on create
FieldError(accts, f, data, partial, id) ==
    IF f \notin DOMAIN data THEN (IF partial THEN "" ELSE "required")
    ELSE IF f = "email"
    THEN IF data.email = <<>> THEN "blank"
         ELSE IF ~ValidEmail(data.email) THEN "invalid"
         ELSE IF WithEmail(accts, data.email) \ {id} # {} THEN "unique"
         ELSE ""
    ELSE IF data[f] = "" THEN "blank"
    ELSE IF f = "password" /\ Len(data.password) < PasswordMinLength
    THEN "min_length"
    ELSE ""

\* serializer.errors: the fields in error, each with its error
UserErrors(accts, data, partial, id) ==
    LET bad == {f \in UserFields : FieldError(accts, f, data, partial, id) # ""}
    IN  [f \in bad |-> FieldError(accts, f, data, partial, id)]

\* serializer.data with password shown
Representation_All(user) == user

\* serializer.data: password is write_only
Representation(user) == [email |-> user.email, name |-> user.name]

UserResult(accts, status, id, body) ==
    [accounts |-> accts, status |-> status, id |-> id, body |-> body]

ServerError == [detail |-> "Server Error (500)"]

\* UserViewCreate without the min_length of the password
UserViewCreate_AnyLength(accts, data) ==
    LET errors == UserErrors(accts, data, FALSE, 0)
    IN  IF DOMAIN errors \ {"password"} # {} \/ "password" \notin DOMAIN data
           \/ data.password = ""
        THEN UserResult(accts, 400, 0, errors)
        ELSE LET r == create_user(accts, data.email, data.password,
                                  Only(data, {"name"}))
             IN  IF r.ok
                 THEN UserResult(r.accounts, 201, r.id, Representation(r.accounts[r.id]))
                 ELSE UserResult(accts, 500, 0, ServerError)

\* POST /user/create/ : CreateUserView, UserSerializer.create
UserViewCreate(accts, data) ==
    LET errors == UserErrors(accts, data, FALSE, 0)
    IN  IF DOMAIN errors # {} THEN UserResult(accts, 400, 0, errors)
        ELSE LET r == create_user(accts, data.email, data.password,
                                  Only(data, {"name"}))
             IN  IF r.ok
                 THEN UserResult(r.accounts, 201, r.id, Representation(r.accounts[r.id]))
                 ELSE UserResult(accts, 500, 0, ServerError)

\* authenticate that checks no password
authenticate_NoCheck(accts, email, password) ==
    IF WithEmail(accts, email) = {} THEN 0
    ELSE CHOOSE i \in WithEmail(accts, email) : TRUE

\* authenticate(username=email, password=password): the active account
\* with that email if the password checks, else None (0)
authenticate(accts, email, password) ==
    LET found == {i \in WithEmail(accts, email) :
                    /\ CheckPassword(password, accts[i].password)
                    /\ accts[i].is_active}
    IN  IF found = {} THEN 0 ELSE CHOOSE i \in found : TRUE

\* the key of the user's Token row
TokenOf(id) == <<"token", id>>

\* POST /user/token/ : CreateTokenView, AuthTokenSerializer.validate
TokenViewCreate(accts, data) ==
    LET bad == {f \in {"email", "password"} :
                   \/ f \notin DOMAIN data
                   \/ f = "email" /\ (data.email = <<>> \/ ~ValidEmail(data.email))
                   \/ f = "password" /\ data.password = ""}
    IN  IF bad # {} THEN UserResult(accts, 400, 0, [f \in bad |-> "invalid"])
        ELSE LET user == authenticate(accts, data.email, data.password)
             IN  IF user = 0
                 THEN UserResult(accts, 400, 0, [non_field_errors |-> "authorization"])
                 ELSE UserResult(accts, 200, user, [token |-> TokenOf(user)])

\* GET /user/me/ : ManageUserView.get_object is request.user
MeRetrieve(accts, id) == UserResult(accts, 200, id, Representation(accts[id]))

\* UserSerializer.update(instance, validated_data): the password is popped,
\* ModelSerializer.update sets the other fields, set_password if a password
\* was given
user_update(accts, id, vd) ==
    LET row == [k \in DOMAIN accts[id] |->
                   IF k \in DOMAIN vd \ {"password"} THEN vd[k] ELSE accts[id][k]]
    IN  [accts EXCEPT ![id] =
            IF "password" \in DOMAIN vd /\ vd.password # ""
            THEN [row EXCEPT !.password = Hash(vd.password)]
            ELSE row]

\* MeUpdate that takes every key of the payload for a field
MeUpdate_AllFields(accts, id, data, partial) ==
    LET errors == UserErrors(accts, data, partial, id)
    IN  IF DOMAIN errors # {} THEN UserResult(accts, 400, id, errors)
        ELSE LET after == user_update(accts, id, data)
             IN  UserResult(after, 200, id, Representation(after[id]))

\* PUT (partial = FALSE) or PATCH (partial = TRUE) /user/me/
MeUpdate(accts, id, data, partial) ==
    LET errors == UserErrors(accts, Only(data, UserFields), partial, id)
    IN  IF DOMAIN errors # {} THEN UserResult(accts, 400, id, errors)
        ELSE LET after == user_update(accts, id, Only(data, UserFields))
             IN  UserResult(after, 200, id, Representation(after[id]))

----------------------------------------------------------------------------
(* SpecUser: accounts are created, sign in and manage themselves *)

\* POST /user/create/ payloads: emails that differ in the case of the
\* domain or of the local part, a malformed and an empty email, with a
\* short, a five character and a longer password; a missing field
UserCreateData ==
    {[email |-> e, password |-> p, name |-> "n1"] :
        e \in {<<"a", "@", "b">>, <<"a", "@", "B">>, <<"B", "@", "b">>,
                <<>>, <<"a">>},
        p \in Passwords}
    \cup {[email |-> <<"a", "@", "b">>, password |-> "12345"],
          [email |-> <<"a", "@", "b">>, name |-> "n1"],
          [password |-> "12345", name |-> "n1"],
          [email |-> <<"a", "@", "b">>, password |-> "", name |-> "n1"]}

\* POST /user/token/ payloads
TokenData ==
    {[email |-> e, password |-> p] :
        e \in {<<"a", "@", "b">>, <<"a", "@", "B">>, <<"B", "@", "b">>, <<>>},
        p \in {"12345", "abcdef", ""}}

\* PATCH /user/me/ payloads
MePatchData ==
    PartialDicts([name |-> {"n2"}, password |-> {"abcdef", "1234", ""},
                  email |-> {<<"b", "@", "B">>, <<"a", "@", "b">>},
                  is_staff |-> {TRUE}])

\* the user requests leave the recipe tables alone; last.params keeps the
\* payload. ObtainAuthToken.post gets or creates the Token row of the user
\* it answers 200
ServeUser(op, data, r) ==
    /\ accounts' = r.accounts
    /\ tokens' = IF op = "token" /\ r.status = 200 THEN tokens \cup {r.id}
                 ELSE tokens
    /\ last' = [op |-> op, params |-> data, status |-> r.status, id |-> r.id,
                body |-> r.body,
                had |-> [tags |-> nextTagId, ingredients |-> nextIngredientId]]
    /\ UNCHANGED <<dbvars, reqs, cmd>>

\* PUT /user/me/ payloads
MePutData ==
    {[email |-> <<"a", "@", "b">>, password |-> "abcdef", name |-> "n2"],
     [email |-> <<"b", "@", "B">>, password |-> "12345", name |-> "n1",
      is_staff |-> TRUE],
     [email |-> <<"a", "@", "b">>, name |-> "n2"]}

UserCreate(data) ==
    /\ ServeUser("user_create", data, UserViewCreate(accounts, data))
    /\ Cardinality(DOMAIN accounts') <= MaxAccounts

TokenCreate(data) == ServeUser("token", data, TokenViewCreate(accounts, data))

UserRetrieve(id) == ServeUser("me_retrieve", NoData, MeRetrieve(accounts, id))

UserUpdate(id, data) ==
    ServeUser("me_update", data, MeUpdate(accounts, id, data, FALSE))

UserPartialUpdate(id, data) ==
    ServeUser("me_partial_update", data, MeUpdate(accounts, id, data, TRUE))

NextUser ==
    \/ \E data \in UserCreateData : UserCreate(data)
    \/ \E data \in TokenData : TokenCreate(data)
    \/ \E id \in DOMAIN accounts : UserRetrieve(id)
    \/ \E id \in DOMAIN accounts, data \in MePutData : UserUpdate(id, data)
    \/ \E id \in DOMAIN accounts, data \in MePatchData : UserPartialUpdate(id, data)

SpecUser == InitFresh /\ [][NextUser]_vars

----------------------------------------------------------------------------
(* SpecManager: users made by the manager, as the commands and the tests do *)

\* get_user_model().objects.create_user(email, password); status 1 stands
\* for the exception raised
ManagerCreateUser(email, password) ==
    /\ LET r == create_user(accounts, email, password, NoData)
       IN  ServeUser("create_user", [email |-> email, password |-> password],
                     UserResult(r.accounts, IF r.ok THEN 0 ELSE 1, r.id, r.error))
    /\ Cardinality(DOMAIN accounts') <= MaxManagerUsers

NextManager ==
    \E email \in AllEmails, password \in {"12345"} :
        ManagerCreateUser(email, password)

SpecManager == InitFresh /\ [][NextManager]_vars

----------------------------------------------------------------------------
(* BaseRecipeAttrViewSet.get_queryset and the label lists *)

MaxLabelRecipes == 2

\* the names in ascending order, for order_by
NameOrder == <<"a", "b">>

Rank(n) == CHOOSE i \in DOMAIN NameOrder : NameOrder[i] = n

\* FilterAssigned that filters nothing
FilterAssigned_None(db, kind, rows) == rows

\* queryset.filter(recipe__isnull=False) on rows, a bag of label ids: the
\* join yields a label once per recipe linked to it
FilterAssigned(db, kind, rows) ==
    LET n(i) == rows[i] * Cardinality(LinkedBy(db, kind, i))
    IN  [i \in {j \in DOMAIN rows : n(j) > 0} |-> n(i)]

\* queryset.filter(user=self.request.user) on a bag of label ids
FilterLabelUser(db, kind, rows, u) ==
    [i \in {j \in DOMAIN rows : db[kind][j].user = u} |-> rows[i]]

\* the orders of the ids of S
Orders(S) ==
    {p \in [1..Cardinality(S) -> S] : \A i, j \in DOMAIN p : p[i] = p[j] => i = j}

\* the ids of p, each as often as rows has it
RECURSIVE Repeated(_, _)
Repeated(p, rows) ==
    IF p = <<>> THEN <<>>
    ELSE [k \in 1..rows[Head(p)] |-> Head(p)] \o Repeated(Tail(p), rows)

\* order_by('-name'): the lists the database may give, greatest name first;
\* the order among rows of one name is the database's
OrderByDescName(db, kind, rows) ==
    {Repeated(p, rows) :
        p \in {q \in Orders(DOMAIN rows) :
                 \A i, j \in DOMAIN q :
                     i < j => Rank(db[kind][q[i]].name) >= Rank(db[kind][q[j]].name)}}

\* BaseRecipeAttrViewSet.get_queryset() for request.user = u: the lists it
\* may give
label_get_queryset(db, kind, u, params) ==
    LET assigned_only == IF "assigned_only" \in DOMAIN params
                         THEN IntOf(params.assigned_only) # 0
                         ELSE FALSE
        q0 == [i \in DOMAIN db[kind] |-> 1]
        q1 == IF assigned_only THEN FilterAssigned(db, kind, q0) ELSE q0
    IN  {Distinct(l) : l \in OrderByDescName(db, kind, FilterLabelUser(db, kind, q1, u))}

\* ?assigned_only= values
LabelListParams == PartialDicts([assigned_only |-> {"0", "1"}])

\* GET /recipe/tags/ and /recipe/ingredients/ : ListModelMixin.list, the
\* responses it may give
LabelViewList(db, kind, u, params) ==
    {Result(db, 200, 0, body) : body \in label_get_queryset(db, kind, u, params)}

TagList(u, params) ==
    \E r \in LabelViewList(DB, "tags", u, params) : Serve("tag_list", params, r)

IngredientList(u, params) ==
    \E r \in LabelViewList(DB, "ingredients", u, params) :
        Serve("ingredient_list", params, r)

NextLabels ==
    \/ \E u \in Users, data \in ListCreateData :
          RecipeCreate(u, data) /\ Within(MaxLabelRecipes, MaxTags, MaxIngredients)
    \/ \E u \in Users, rid \in RecipeIds, data \in AccessPatchData :
          RecipePartialUpdate(u, rid, data)
             /\ Within(MaxLabelRecipes, MaxTags, MaxIngredients)
    \/ \E u \in Users, rid \in RecipeIds : RecipeDestroy(u, rid)
    \/ \E u \in Users, id \in TagIds, data \in NameData : TagUpdate(u, id, data)
    \/ \E u \in Users, params \in LabelListParams : TagList(u, params)
    \/ \E u \in Users, params \in LabelListParams : IngredientList(u, params)

SpecLabels == InitFresh /\ [][NextLabels]_vars

----------------------------------------------------------------------------
(* SpecOwn: two users write recipes that name the same labels, and delete  *)
(* recipes and labels                                                      *)

MaxOwnRecipes == 2

\* LabelCreate as CreateModelMixin would serve it
LabelCreate_Mixin(db, kind, u, data) ==
    LET id == db[NextKey(kind)]
    IN  Result([db EXCEPT ![kind] = @ @@ (id :> Label(data.name, u)),
                          ![NextKey(kind)] = @ + 1],
               201, id, <<>>)

\* POST /recipe/tags/ or /recipe/ingredients/ : BaseRecipeAttrViewSet has
\* no CreateModelMixin, so the router binds no action to POST and the
\* request is answered 405 Method Not Allowed
LabelCreate(db, kind, u, data) == Result(db, 405, 0, <<>>)

TagCreate(u, data) ==
    Serve("tag_create", NoParams, LabelCreate(DB, "tags", u, data))

IngredientCreate(u, data) ==
    Serve("ingredient_create", NoParams, LabelCreate(DB, "ingredients", u, data))

\* POST payloads: no label, one tag, two tags, a tag and an ingredient, each
\* with or without a user field that names the second user
OwnCreateData ==
    {Scalars("t1") @@ l @@ d :
        l \in {NoData, [tags |-> <<[name |-> "a"]>>],
               [tags |-> <<[name |-> "a"], [name |-> "b"]>>],
               [tags |-> <<[name |-> "a"]>>, ingredients |-> <<[name |-> "a"]>>]},
        d \in {NoData, [user |-> "u2"]}}

\* PATCH payloads: tags or ingredients replaced
OwnPatchData ==
    {[tags |-> <<>>], [tags |-> <<[name |-> "a"]>>], [tags |-> <<[name |-> "b"]>>],
     [ingredients |-> <<[name |-> "a"]>>]}

InOwn == Within(MaxOwnRecipes, MaxTags, MaxIngredients)

NextOwn ==
    \/ \E u \in Users, data \in OwnCreateData : RecipeCreate(u, data) /\ InOwn
    \/ \E u \in Users, rid \in RecipeIds, data \in OwnPatchData :
          RecipePartialUpdate(u, rid, data) /\ InOwn
    \/ \E u \in Users, rid \in RecipeIds : RecipeDestroy(u, rid)
    \/ \E u \in Users, id \in TagIds, data \in NameData : TagUpdate(u, id, data)
    \/ \E u \in Users, id \in TagIds : TagDestroy(u, id)
    \/ \E u \in Users, id \in IngredientIds : IngredientDestroy(u, id)
    \/ \E u \in Users, data \in NameData : TagCreate(u, data)
    \/ \E u \in Users, data \in NameData : IngredientCreate(u, data)

SpecOwn == InitFresh /\ [][NextOwn]_vars

----------------------------------------------------------------------------
(* TokenAuthentication and IsAuthenticated, which RecipeViewSet,           *)
(* BaseRecipeAttrViewSet and ManageUserView declare; CreateUserView and    *)
(* CreateTokenView declare neither. In SpecAuth the owner of a recipe or   *)
(* label is the id of the account that made it.                            *)

MaxAuthRecipes == 1
MaxAuthAccounts == 2

\* a request without an Authorization header
NoToken == <<>>

\* the Authorization headers of the model: none, and the key of the token
\* of each account, whether or not the account and its token are there
AuthCredentials == {NoToken} \cup {TokenOf(i) : i \in 1..MaxAuthAccounts}

\* request_user that takes the key for the user, without the Token table
request_user_NoLookup(accts, toks, cred) ==
    IF cred # NoToken /\ cred[2] \in DOMAIN accts THEN cred[2] ELSE 0

\* TokenAuthentication.authenticate: request.user is the active user whose
\* Token row has the key given; there is none (0) without a header, with a
\* key no Token row has, or when the user is not active
request_user(accts, toks, cred) ==
    LET found == {i \in toks \cap DOMAIN accts :
                     cred = TokenOf(i) /\ accts[i].is_active}
    IN  IF found = {} THEN 0 ELSE CHOOSE i \in found : TRUE

\* the response to a request IsAuthenticated refuses: 401, no handler runs
NotAuthenticated(db) == Result(db, 401, 0, <<>>)

\* the requests to the endpoints of the recipe app
RecipeAppRequests ==
    {[op |-> "create", data |-> d] : d \in AccessCreateData}
    \cup {[op |-> "list", params |-> NoParams]}
    \cup {[op |-> o, id |-> i] :
            o \in {"retrieve", "destroy"}, i \in 1..MaxAuthRecipes}
    \cup {[op |-> "partial_update", id |-> i, data |-> d] :
            i \in 1..MaxAuthRecipes, d \in {[title |-> "t2"], [tags |-> <<>>]}}
    \cup {[op |-> "upload_image", id |-> i, data |-> d] :
            i \in 1..MaxAuthRecipes, d \in {[image |-> j] : j \in Images}}
    \cup {[op |-> o, kind |-> k, params |-> NoParams] :
            o \in {"label_list"}, k \in LinkKeys}
    \cup {[op |-> "label_create", kind |-> k, data |-> [name |-> "b"]] :
            k \in LinkKeys}
    \cup {[op |-> "label_update", kind |-> "tags", id |-> 1, data |-> [name |-> "b"]],
          [op |-> "label_destroy", kind |-> "tags", id |-> 1],
          [op |-> "label_destroy", kind |-> "ingredients", id |-> 1]}

\* the view's handler for a request of user u: the responses it may give
Handled(db, u, req) ==
    CASE req.op = "create" -> {ViewCreate(db, u, req.data)}
      [] req.op = "list" -> {ViewList(db, u, req.params)}
      [] req.op = "retrieve" -> {ViewRetrieve(db, u, req.id)}
      [] req.op = "destroy" -> {ViewDestroy(db, u, req.id)}
      [] req.op = "partial_update" -> {ViewUpdate(db, u, req.id, req.data, TRUE)}
      [] req.op = "upload_image" -> {upload_image(db, u, req.id, req.data)}
      [] req.op = "label_list" -> LabelViewList(db, req.kind, u, req.params)
      [] req.op = "label_create" -> {LabelCreate(db, req.kind, u, req.data)}
      [] req.op = "label_update" ->
            {LabelUpdate(db, req.kind, u, req.id, req.data)}
      [] req.op = "label_destroy" -> {LabelDestroy(db, req.kind, u, req.id)}

\* APIView.initial, then the handler: authentication and permissions are
\* checked before the handler is looked up
Dispatch(db, accts, toks, cred, req) ==
    LET u == request_user(accts, toks, cred)
    IN  IF u = 0 THEN {NotAuthenticated(db)} ELSE Handled(db, u, req)

\* the requests to /user/me/
MeRequests ==
    {[op |-> "me_retrieve"],
     [op |-> "me_partial_update", data |-> [name |-> "n2"]],
     [op |-> "me_partial_update", data |-> [password |-> "abcdef"]]}

\* ManageUserView behind the same two classes
MeDispatch(accts, toks, cred, req) ==
    LET u == request_user(accts, toks, cred)
    IN  IF u = 0
        THEN UserResult(accts, 401, 0, [detail |-> "not_authenticated"])
        ELSE IF req.op = "me_retrieve" THEN MeRetrieve(accts, u)
        ELSE MeUpdate(accts, u, req.data, TRUE)

\* POST /user/create/ payloads of two users
AuthUserData ==
    {[email |-> <<"a", "@", "b">>, password |-> "12345", name |-> "n1"],
     [email |-> <<"b", "@", "b">>, password |-> "abcdef", name |-> "n1"]}

\* POST /user/token/ payloads: their credentials, and a wrong password
AuthTokenData ==
    {[email |-> <<"a", "@", "b">>, password |-> "12345"],
     [email |-> <<"b", "@", "b">>, password |-> "abcdef"],
     [email |-> <<"b", "@", "b">>, password |-> "12345"]}

\* last.params keeps the Authorization header
RecipeAppRequest(cred, req) ==
    \E r \in Dispatch(DB, accounts, tokens, cred, req) :
        /\ Serve(req.op, [token |-> cred], r)
        /\ Within(MaxAuthRecipes, MaxTags, MaxIngredients)

MeRequest(cred, req) ==
    ServeUser(req.op, [token |-> cred], MeDispatch(accounts, tokens, cred, req))

NextAuth ==
    \/ \E data \in AuthUserData : UserCreate(data)
    \/ \E data \in AuthTokenData : TokenCreate(data)
    \/ \E cred \in AuthCredentials, req \in RecipeAppRequests :
          RecipeAppRequest(cred, req)
    \/ \E cred \in AuthCredentials, req \in MeRequests : MeRequest(cred, req)

SpecAuth == InitFresh /\ [][NextAuth]_vars

----------------------------------------------------------------------------
(* The wait_for_db command (app/core/management/commands/wait_for_db.py). *)
(* Each statement of handle() is a step; what self.check does is the      *)
(* database's: it returns, or raises one of the two operational errors.   *)

MaxChecks == 6

\* the exceptions the except clause catches
OperationalErrors == {"Psycopg2OperationalError", "OperationalError"}

Waiting == "Waiting for database..."
Unavailable == "Database unavailable, waiting 1 second..."
Available == "Database available. "

\* self.stdout.write('Waiting for database...'); db_up = False
handle_begin(c) ==
    [c EXCEPT !.out = Append(@, Waiting), !.db_up = FALSE, !.pc = "while"]

\* the loop test as `while calls == 0`: one check, whatever it gives
handle_while_Once(c) ==
    [c EXCEPT !.pc = IF c.checks = <<>> THEN "check" ELSE "report"]

\* while db_up is False:
handle_while(c) ==
    [c EXCEPT !.pc = IF c.db_up = FALSE THEN "check" ELSE "report"]

\* self.check(databases=['default']); db_up = True, or the exception the
\* check raised
handle_check(c, outcome) ==
    IF outcome = "ok"
    THEN [c EXCEPT !.checks = Append(@, <<"default">>), !.db_up = TRUE,
                   !.pc = "while"]
    ELSE [c EXCEPT !.checks = Append(@, <<"default">>),
                   !.raised = Append(@, outcome), !.pc = "except"]

\* except (Psycopg2OperationalError, OperationalError): self.stdout.write(...)
handle_except(c) == [c EXCEPT !.out = Append(@, Unavailable), !.pc = "sleep"]

\* time.sleep(1)
handle_sleep(c) == [c EXCEPT !.sleeps = Append(@, 1), !.pc = "while"]

\* self.stdout.write(self.style.SUCCESS('Database available. '))
handle_report(c) == [c EXCEPT !.out = Append(@, Available), !.pc = "done"]

\* a step of the command: nothing but the command changes
Step(c) ==
    /\ cmd' = c
    /\ UNCHANGED <<dbvars, last, reqs, accounts, tokens>>

WaitBegin == cmd.pc = "start" /\ Step(handle_begin(cmd))

WaitWhile == cmd.pc = "while" /\ Step(handle_while(cmd))

WaitCheck(outcome) ==
    /\ cmd.pc = "check"
    /\ Len(cmd.checks) < MaxChecks
    /\ Step(handle_check(cmd, outcome))

WaitExcept == cmd.pc = "except" /\ Step(handle_except(cmd))

WaitSleep == cmd.pc = "sleep" /\ Step(handle_sleep(cmd))

WaitReport == cmd.pc = "report" /\ Step(handle_report(cmd))

NextWait ==
    \/ WaitBegin
    \/ WaitWhile
    \/ \E outcome \in OperationalErrors \cup {"ok"} : WaitCheck(outcome)
    \/ WaitExcept
    \/ WaitSleep
    \/ WaitReport

\* the command is one sequential process that runs until it returns
SpecWait == InitFresh /\ [][NextWait]_vars /\ WF_vars(NextWait)

----------------------------------------------------------------------------
(* What the claims speak of *)

\* the names a nested payload lists
NamesOf(descs) == {descs[i].name : i \in DOMAIN descs}

\* no two rows of a label table share owner and name
LabelUnique(table) ==
    \A i, j \in DOMAIN table :
        (table[i].user = table[j].user /\ table[i].name = table[j].name) => i = j

\* u's rows of a label table named in a nested payload
Named(table, u, descs) ==
    {i \in DOMAIN table : table[i].user = u /\ table[i].name \in NamesOf(descs)}

\* P of every recipe create request and what its handler leaves
ForAllCreates(P(_, _, _)) ==
    \A u \in Users, data \in CreateData : P(u, data, ViewCreate(DB, u, data))

\* P of every recipe update request (PUT and PATCH) and what its handler
\* leaves
ForAllUpdates(P(_, _, _, _)) ==
    \A u \in Users, rid \in RecipeIds :
        /\ \A data \in PutData : P(u, rid, data, ViewUpdate(DB, u, rid, data, FALSE))
        /\ \A data \in PatchData : P(u, rid, data, ViewUpdate(DB, u, rid, data, TRUE))

\* P of every recipe delete request and what its handler leaves
ForAllDestroys(P(_, _, _)) ==
    \A u \in Users, rid \in RecipeIds : P(u, rid, ViewDestroy(DB, u, rid))

----------------------------------------------------------------------------
(* C1 *)

\* a recipe write by u with payload data, leaving r, keeps a table of kind
\* k without duplicates: no row changes, no two rows share owner and name,
\* and a listed name u already has makes no row
KeepsUnique(u, data, r) ==
    \A k \in LinkKeys :
        LabelUnique(DB[k]) =>
            /\ LabelUnique(r.db[k])
            /\ \A i \in DOMAIN DB[k] : i \in DOMAIN r.db[k] /\ r.db[k][i] = DB[k][i]
            /\ k \in DOMAIN data =>
                  \A n \in NamesOf(data[k]) :
                      Matching(DB[k], u, n) # {} =>
                          Matching(r.db[k], u, n) = Matching(DB[k], u, n)

KeepsUniqueAt(u, rid, data, r) == KeepsUnique(u, data, r)

\* C1: from a state whose tags (resp. ingredients) have at most one row per
\* (owner, name), every recipe create and every recipe update, by any user
\* and with any payload (a repeated name included), leaves at most one row
\* per (owner, name); a listed name the acting user already has resolves to
\* the existing row and creates none.
C1_LabelUniqueness ==
    ForAllCreates(KeepsUnique) /\ ForAllUpdates(KeepsUniqueAt)

\* a create that linked a tag which was there before it and a tag it made
C1_Witness ==
    /\ last.op = "create" /\ last.status = 201
    /\ LabelUnique(tags)
    /\ \E i, j \in recipes[last.id].tags : i < last.had.tags /\ j >= last.had.tags

----------------------------------------------------------------------------
(* C3 *)

\* the links of kind k that a payload asks of u's recipe: u's rows named in
\* it, one per name; none when the key is absent
LinksAsked(db, u, data, k) ==
    IF k \in DOMAIN data THEN Named(db[k], u, data[k]) ELSE {}

CreateLinksExact(u, data, r) ==
    r.status = 201 =>
        /\ r.id \in DOMAIN r.db.recipes
        /\ \A k \in LinkKeys :
              /\ r.db.recipes[r.id][k] = LinksAsked(r.db, u, data, k)
              /\ k \in DOMAIN data =>
                    Cardinality(r.db.recipes[r.id][k]) =
                        Cardinality(NamesOf(data[k]))

\* C3: after a successful recipe create, the new recipe's tag (resp.
\* ingredient) links are exactly the acting user's labels whose names the
\* payload lists, one link per distinct name, whether the label was there
\* before or was made by this request; without the key there is no link.
C3_CreateLinks == ForAllCreates(CreateLinksExact)

\* a create whose payload repeated a name or named two: it linked a tag that
\* was there and one it made, and made no ingredient link
C3_Witness ==
    /\ last.op = "create" /\ last.status = 201
    /\ recipes[last.id].ingredients = {}
    /\ Cardinality(recipes[last.id].tags) = 2
    /\ \E i \in recipes[last.id].tags : i < last.had.tags

----------------------------------------------------------------------------
(* C4 *)

UpdateLinksExact(u, rid, data, r) ==
    r.status = 200 =>
        \A k \in LinkKeys :
            k \in DOMAIN data =>
                /\ r.db.recipes[rid][k] = LinksAsked(r.db, u, data, k)
                /\ \A n \in NamesOf(data[k]) :
                      \E i \in r.db.recipes[rid][k] :
                          r.db[k][i].name = n /\ r.db[k][i].user = u
                /\ \A i \in DB.recipes[rid][k] :
                      DB[k][i].name \notin NamesOf(data[k]) =>
                          i \notin r.db.recipes[rid][k]

\* C4: when an update payload has the tags (resp. ingredients) key, the
\* recipe's links of that kind are afterwards exactly the labels the payload
\* names: every label linked before and not named is no longer linked, and
\* every named label is linked, made if the acting user had none.
C4_UpdateReplacesLinks == ForAllUpdates(UpdateLinksExact)

\* an update that made a tag and linked it, on a recipe that keeps no link
\* to an older tag
C4_Witness ==
    /\ last.op \in {"update", "partial_update"} /\ last.status = 200
    /\ last.had.tags > 1
    /\ \E i \in recipes[last.id].tags : i >= last.had.tags
    /\ \A i \in recipes[last.id].tags : i >= last.had.tags
    /\ \E i \in DOMAIN tags : i < last.had.tags /\ tags[i].user = recipes[last.id].user

----------------------------------------------------------------------------
(* C5 *)

OmitVersusEmpty(u, rid, data, r) ==
    rid \in DOMAIN DB.recipes =>
        \A k \in LinkKeys :
            /\ (r.status = 200 /\ k \in DOMAIN data /\ data[k] = <<>>) =>
                  r.db.recipes[rid][k] = {}
            /\ k \notin DOMAIN data =>
                  /\ rid \in DOMAIN r.db.recipes
                  /\ r.db.recipes[rid][k] = DB.recipes[rid][k]

\* C5: an update whose payload has tags (resp. ingredients) as an empty list
\* leaves the recipe no link of that kind; an update whose payload has no
\* such key leaves the recipe's links of that kind as they were, whatever it
\* does to the other kind.
C5_OmitVersusEmpty == ForAllUpdates(OmitVersusEmpty)

\* an update that listed ingredients and no tags, on a recipe with a tag
C5_Witness ==
    /\ last.op = "partial_update" /\ last.status = 200
    /\ recipes[last.id].tags # {}
    /\ \E i \in recipes[last.id].ingredients : i >= last.had.ingredients

----------------------------------------------------------------------------
(* C6 *)

\* every row of the label tables is still there, name and owner as before
LabelsKept(r) ==
    \A k \in LinkKeys :
        \A i \in DOMAIN DB[k] : i \in DOMAIN r.db[k] /\ r.db[k][i] = DB[k][i]

LabelsKeptByUpdate(u, rid, data, r) == LabelsKept(r)

LabelsKeptByDestroy(u, rid, r) == LabelsKept(r)

\* C6: no recipe update and no recipe delete removes a Tag or Ingredient
\* row: a label an update unlinks from its last recipe is still there with
\* its name and owner.
C6_OrphansPersist ==
    ForAllUpdates(LabelsKeptByUpdate) /\ ForAllDestroys(LabelsKeptByDestroy)

\* an update left the recipe without tags, and a tag a recipe write made
\* (there are more than the first state had) is still there, linked nowhere
C6_Witness ==
    /\ last.op = "partial_update" /\ last.status = 200
    /\ recipes[last.id].tags = {}
    /\ Cardinality(DOMAIN tags) > MaxInitLabels
    /\ \A i \in DOMAIN recipes : recipes[i].tags = {}

----------------------------------------------------------------------------
(* C7 *)

SameTables(r) ==
    /\ r.db.recipes = DB.recipes
    /\ r.db.tags = DB.tags
    /\ r.db.ingredients = DB.ingredients

NothingOnFailureCreate(u, data, r) == r.status >= 400 => SameTables(r)

NothingOnFailureUpdate(u, rid, data, r) == r.status >= 400 => SameTables(r)

\* C7: a recipe create or update that fails after it started leaves none of
\* its effects: no new recipe row, no new label, the recipe's links and
\* scalar fields as before.
C7_AllOrNothing ==
    ForAllCreates(NothingOnFailureCreate) /\ ForAllUpdates(NothingOnFailureUpdate)

----------------------------------------------------------------------------
(* C8 *)

\* the response is 404 and the database is as it was
Hidden(r) == r.status = 404 /\ r.db = DB

\* C8: for every recipe and every user who does not own it, retrieve, PUT,
\* PATCH, delete and upload-image on the recipe's id answer 404, and the
\* recipe row, its links and its image stay as they were.
C8_CrossUserInvisible ==
    \A rid \in DOMAIN recipes :
        \A u \in Users \ {recipes[rid].user} :
            /\ Hidden(ViewRetrieve(DB, u, rid))
            /\ \A data \in PutData : Hidden(ViewUpdate(DB, u, rid, data, FALSE))
            /\ \A data \in AccessPatchData \cup PatchData :
                  Hidden(ViewUpdate(DB, u, rid, data, TRUE))
            /\ Hidden(ViewDestroy(DB, u, rid))
            /\ \A data \in ImageData : Hidden(upload_image(DB, u, rid, data))

\* a write on a recipe that is there was answered 404
C8_Witness ==
    /\ last.op \in {"update", "partial_update", "destroy", "upload_image"}
    /\ last.status = 404
    /\ last.id \in DOMAIN recipes
    /\ recipes[last.id].tags # {}

----------------------------------------------------------------------------
(* C9 *)

Owned(u) == {i \in DOMAIN recipes : recipes[i].user = u}

\* C9: the recipe list without filters holds exactly the requester's
\* recipes, each once, in strictly descending id.
C9_ListOwnRecipes ==
    \A u \in Users :
        LET r == ViewList(DB, u, NoParams)
        IN  /\ r.status = 200
            /\ Range(r.body) = Owned(u)
            /\ \A i, j \in DOMAIN r.body : i < j => r.body[i] > r.body[j]

\* an unfiltered list of two recipes while the other user has one
C9_Witness ==
    /\ last.op = "list" /\ last.params = NoParams
    /\ Len(last.body) = 2
    /\ \E i \in DOMAIN recipes : i \notin Range(last.body)

----------------------------------------------------------------------------
(* C10 *)

\* a recipe has a link of kind k to one of the ids listed in ?k=
Matches(row, params, k) ==
    \E i \in DOMAIN params[k] : IntOf(params[k][i]) \in row[k]

\* the requester's recipes that pass every filter given
Filtered(u, params) ==
    {i \in Owned(u) :
        \A k \in DOMAIN params : Matches(recipes[i], params, k)}

\* C10: the recipe list filtered by ids in ?tags= (resp. ?ingredients=)
\* holds exactly the requester's recipes linked to at least one listed id,
\* each once even when linked to several; with both filters, a recipe must
\* pass both.
C10_ListFiltered ==
    \A u \in Users, params \in ListParams :
        LET r == ViewList(DB, u, params)
        IN  /\ Range(r.body) = Filtered(u, params)
            /\ \A i, j \in DOMAIN r.body : r.body[i] = r.body[j] => i = j

\* a list filtered by two tags and an ingredient returned a recipe linked to
\* both tags, and left out a recipe of the requester that has a listed tag
\* and not the ingredient
C10_Witness ==
    /\ last.op = "list"
    /\ last.params = [tags |-> <<"1", "2">>, ingredients |-> <<"1">>]
    /\ \E i \in Range(last.body) : recipes[i].tags = {1, 2}
    /\ \E i \in DOMAIN recipes :
          /\ i \notin Range(last.body)
          /\ \E j \in Range(last.body) : recipes[i].user = recipes[j].user
          /\ recipes[i].tags # {}

----------------------------------------------------------------------------
(* C2 *)

\* the writes of workers v and w were by one user and both went through
Together(v, w) ==
    /\ v # w
    /\ reqs[v].pc = "done" /\ reqs[w].pc = "done"
    /\ reqs[v].status \in {200, 201} /\ reqs[w].status \in {200, 201}
    /\ reqs[v].user = reqs[w].user

\* C2: when two recipe writes by one user that both name a label the user
\* does not have are served at once, their lookups and inserts interleaved
\* in any order, exactly one label of that owner and name is there
\* afterwards and both recipes are linked to it.
C2_AtomicFindOrCreate ==
    \A v, w \in DOMAIN reqs :
        Together(v, w) =>
            \A k \in DOMAIN reqs[v].vd \cap DOMAIN reqs[w].vd \cap LinkKeys :
                \A n \in NamesOf(reqs[v].vd[k]) \cap NamesOf(reqs[w].vd[k]) :
                    LET found == Matching(DB[k], reqs[v].user, n)
                    IN  /\ Cardinality(found) = 1
                        /\ found \subseteq recipes[reqs[v].rid][k]
                        /\ found \subseteq recipes[reqs[w].rid][k]

----------------------------------------------------------------------------
(* C11 *)

\* the scalar fields of row that data lists have data's values, the others
\* the values of old
ScalarsPatched(row, old, data) ==
    \A f \in ScalarFields :
        row[f] = IF f \in DOMAIN data THEN data[f] ELSE old[f]

\* C11: a PATCH of a recipe by its owner is accepted and sets exactly the
\* scalar fields its payload lists, each to the value given; title,
\* description, time_minutes, price and link keep their value when the
\* payload does not list them.
C11_PatchTouchesListedScalars ==
    \A rid \in DOMAIN recipes : \A data \in FieldPatchData :
        LET r == ViewUpdate(DB, recipes[rid].user, rid, data, TRUE)
        IN  /\ r.status = 200
            /\ ScalarsPatched(r.db.recipes[rid], recipes[rid], data)

\* a PATCH changed the title of a recipe whose link and description had
\* been given, and they are still there
C11_Witness ==
    /\ last.op = "partial_update" /\ last.status = 200
    /\ recipes[last.id].title = "t2"
    /\ recipes[last.id].link = "l1"
    /\ recipes[last.id].description = "d1"
    /\ recipes[last.id].price = 525

----------------------------------------------------------------------------
(* C12 *)

----------------------------------------------------------------------------
(* C19 *)

\* the row but for its image
NoImageOf(row) == Without(row, {"image"})

----------------------------------------------------------------------------
(* C13 *)

\* account create payloads with a valid email, a password of five
\* characters or more and a name
GoodCreateData ==
    {d \in UserCreateData :
        /\ DOMAIN d = UserFields
        /\ ValidEmail(d.email)
        /\ Len(d.password) >= PasswordMinLength}

\* no account has the email, the case of the domain aside
Unregistered(email) ==
    \A i \in DOMAIN accounts :
        normalize_email(accounts[i].email) # normalize_email(email)

\* C13: an account create request with a valid email no account has, a
\* password of five characters or more and a name is answered 201; the same
\* request made again after it was answered 201 is answered 400 and leaves
\* the user table as it is, with one account of that email.
C13_CreateOncePerEmail ==
    /\ \A data \in GoodCreateData :
          Unregistered(data.email) => UserViewCreate(accounts, data).status = 201
    /\ (last.op = "user_create" /\ last.status = 201) =>
          LET again == UserViewCreate(accounts, last.params)
          IN  /\ again.status = 400
              /\ again.accounts = accounts
              /\ Cardinality(WithEmail(accounts, accounts[last.id].email)) = 1

----------------------------------------------------------------------------
(* C14 *)

\* stored is email with the part after its last "@" lowercased and the rest
\* as it was
DomainLowered(stored, email) ==
    /\ Len(stored) = Len(email)
    /\ \A i \in DOMAIN email :
          stored[i] = IF \E j \in Ats(email) : j >= i THEN email[i]
                      ELSE Lower(email[i])

\* C14: create_user stores the email with the part after the last "@"
\* lowercased and the part before it as given (an email without "@" as
\* given); with an empty email it raises ValueError and the user table
\* stays as it is. The accounts there before are not changed.
C14_EmailNormalized ==
    \A email \in AllEmails :
        LET r == create_user(accounts, email, "12345", NoData)
        IN  /\ email = <<>> =>
                  ~r.ok /\ r.error = "ValueError" /\ r.accounts = accounts
            /\ r.ok =>
                  /\ IF Ats(email) = {} THEN r.accounts[r.id].email = email
                     ELSE DomainLowered(r.accounts[r.id].email, email)
                  /\ \A i \in DOMAIN accounts : r.accounts[i] = accounts[i]

\* a user was made whose email had capitals on both sides of the "@": the
\* one before it is still there, the one after it is not
C14_Witness ==
    /\ last.op = "create_user" /\ last.status = 0
    /\ last.params.email = <<"B", "@", "B">>
    /\ accounts[last.id].email = <<"B", "@", "b">>

----------------------------------------------------------------------------
(* C15 *)

\* C15: an account create request whose password has fewer than five
\* characters is answered 400 with an error on the password and makes no
\* account; a password of exactly five characters draws no error, and the
\* request is answered 201 when its email is valid and unregistered and it
\* has a name, the account then checking that password.
C15_PasswordMinLength ==
    \A data \in UserCreateData :
        "password" \in DOMAIN data =>
            LET r == UserViewCreate(accounts, data)
            IN  /\ Len(data.password) < 5 =>
                      /\ r.status = 400 /\ "password" \in DOMAIN r.body
                      /\ r.accounts = accounts
                /\ Len(data.password) = 5 =>
                      /\ r.status = 400 => "password" \notin DOMAIN r.body
                      /\ (data \in GoodCreateData /\ Unregistered(data.email)) =>
                            /\ r.status = 201
                            /\ CheckPassword(data.password,
                                             r.accounts[r.id].password)

\* a create with a four character password and nothing else wrong was
\* refused, and no account has its email
C15_Witness ==
    /\ last.op = "user_create" /\ last.status = 400
    /\ DOMAIN last.body = {"password"}
    /\ DOMAIN last.params = UserFields
    /\ last.params.password = "1234"
    /\ WithEmail(accounts, normalize_email(last.params.email)) = {}
    /\ accounts # <<>>

----------------------------------------------------------------------------
(* C16 *)

\* a response body without the password: a body of the account has the
\* email and the name and nothing else; a body of errors has error codes
NoPassword(r, data) ==
    /\ r.status \in {200, 201} =>
          /\ DOMAIN r.body = {"email", "name"}
          /\ r.body.email = r.accounts[r.id].email
          /\ r.body.name = r.accounts[r.id].name
          /\ "password" \in DOMAIN data => r.body.name # data.password
    /\ r.status = 400 =>
          \A f \in DOMAIN r.body :
              r.body[f] \in {"required", "blank", "invalid", "unique", "min_length"}

\* C16: in every state, whatever request comes next, the response of an
\* account create, of a profile retrieve and of a profile update (PUT or
\* PATCH) shows the account's email and name only, never a password field,
\* the password given or the stored password; a 400 response names the
\* fields in error and shows none of their values.
C16_PasswordNeverReturned ==
    /\ \A data \in UserCreateData : NoPassword(UserViewCreate(accounts, data), data)
    /\ \A id \in DOMAIN accounts :
          /\ NoPassword(MeRetrieve(accounts, id), NoData)
          /\ \A data \in MePutData : NoPassword(MeUpdate(accounts, id, data, FALSE), data)
          /\ \A data \in MePatchData : NoPassword(MeUpdate(accounts, id, data, TRUE), data)

\* a profile update that set a password was answered with email and name
C16_Witness ==
    /\ last.op = "me_partial_update" /\ last.status = 200
    /\ "password" \in DOMAIN last.params
    /\ accounts[last.id].password = Hash(last.params.password)
    /\ DOMAIN last.body = {"email", "name"}

----------------------------------------------------------------------------
(* C17 *)

\* the email and the password are those of an account
Credentials(email, password) ==
    \E i \in DOMAIN accounts :
        accounts[i].email = email /\ accounts[i].password = Hash(password)

\* C17: a token request is answered 200 with a token exactly when its email
\* and password are those of an account; with a wrong password, an unknown
\* or blank email or a blank password it is answered 400 without a token.
\* No account changes.
C17_TokenIffCredentials ==
    \A data \in TokenData :
        LET r == TokenViewCreate(accounts, data)
        IN  /\ r.accounts = accounts
            /\ r.status \in {200, 400}
            /\ r.status = 200 <=> Credentials(data.email, data.password)
            /\ r.status = 200 =>
                  /\ DOMAIN r.body = {"token"}
                  /\ accounts[r.id].email = data.email
                  /\ r.body.token = TokenOf(r.id)
            /\ r.status = 400 => "token" \notin DOMAIN r.body
            /\ (data.email = <<>> \/ data.password = "") => r.status = 400

\* a token was refused to the email of an account with another account's
\* password
C17_Witness ==
    /\ last.op = "token" /\ last.status = 400
    /\ WithEmail(accounts, last.params.email) # {}
    /\ \E i \in DOMAIN accounts : accounts[i].password = Hash(last.params.password)

----------------------------------------------------------------------------
(* C18 *)

\* the account's fields that r changed
Changed(r, id) == {k \in DOMAIN accounts[id] : r.accounts[id][k] # accounts[id][k]}

\* the update by account id left the other accounts alone and, when it set
\* a password, the account checks the new one and no other
OwnAccountOnly(r, id, data) ==
    /\ DOMAIN r.accounts = DOMAIN accounts
    /\ \A i \in DOMAIN accounts \ {id} : r.accounts[i] = accounts[i]
    /\ r.status # 200 => r.accounts = accounts
    /\ (r.status = 200 /\ "password" \in DOMAIN data) =>
          \A p \in Passwords :
              CheckPassword(p, r.accounts[id].password) <=> p = data.password

SetByPayload(data) == DOMAIN data \cap UserFields

----------------------------------------------------------------------------
(* C20 *)

\* u's labels of a kind; those of them some recipe is linked to
OwnedLabels(kind, u) == {i \in DOMAIN DB[kind] : DB[kind][i].user = u}

AssignedLabels(kind, u) ==
    {i \in OwnedLabels(kind, u) : \E r \in DOMAIN recipes : i \in recipes[r][kind]}

\* the list has each id once, and no name after a lesser one
OnceByDescName(kind, body) ==
    /\ \A i, j \in DOMAIN body : body[i] = body[j] => i = j
    /\ \A i, j \in DOMAIN body :
          i < j => Rank(DB[kind][body[i]].name) >= Rank(DB[kind][body[j]].name)

\* C20: every list the tag (resp. ingredient) endpoint may give a user holds
\* exactly the user's labels, each once, by descending name; with
\* assigned_only=1 exactly those of them linked to at least one recipe, each
\* once however many recipes link it; with assigned_only=0 or without it
\* the orphaned ones too.
C20_LabelList ==
    \A kind \in LinkKeys, u \in Users, params \in LabelListParams :
        /\ label_get_queryset(DB, kind, u, params) # {}
        /\ \A body \in label_get_queryset(DB, kind, u, params) :
              /\ OnceByDescName(kind, body)
              /\ Range(body) =
                    IF "assigned_only" \in DOMAIN params /\ params.assigned_only = "1"
                    THEN AssignedLabels(kind, u)
                    ELSE OwnedLabels(kind, u)

\* a tag list with assigned_only=1 gave one tag that two recipes are linked
\* to, and left out a tag of the user that no recipe is linked to
C20_Witness ==
    /\ last.op = "tag_list"
    /\ "assigned_only" \in DOMAIN last.params /\ last.params.assigned_only = "1"
    /\ Len(last.body) = 1
    /\ Cardinality(LinkedBy(DB, "tags", last.body[1])) = 2
    /\ \E i \in DOMAIN tags :
          /\ tags[i].user = tags[last.body[1]].user
          /\ LinkedBy(DB, "tags", i) = {}

----------------------------------------------------------------------------
(* C21 *)

\* neither label table has more rows than before
NoMoreLabels(r) ==
    \A k \in LinkKeys : Cardinality(DOMAIN r.db[k]) <= Cardinality(DOMAIN DB[k])

\* C21: no request to the tag or ingredient endpoints adds a Tag or
\* Ingredient row: a list, an update and a delete leave each label table
\* with at most the rows it had, and a POST to the collection is answered
\* 405 and leaves the database as it was.
C21_LabelsOnlyByRecipeWrites ==
    \A kind \in LinkKeys, u \in Users :
        /\ \A data \in NameData :
              LET r == LabelCreate(DB, kind, u, data)
              IN  r.status = 405 /\ r.db = DB
        /\ \A id \in 1..DB[NextKey(kind)] :
              /\ NoMoreLabels(LabelDestroy(DB, kind, u, id))
              /\ \A data \in NameData \cup {NoData} :
                    NoMoreLabels(LabelUpdate(DB, kind, u, id, data))
        /\ \A params \in LabelListParams :
              \A r \in LabelViewList(DB, kind, u, params) : NoMoreLabels(r)

\* a POST to the tag collection was refused by a user who has a tag, made
\* by a recipe write, and a recipe linked to it
C21_Witness ==
    /\ last.op = "tag_create" /\ last.status = 405
    /\ \E i \in DOMAIN recipes : recipes[i].tags # {}
    /\ Cardinality(DOMAIN tags) = 2

----------------------------------------------------------------------------
(* C24 *)

\* the rows of table after that table before had not
Made(after, before) == {i \in DOMAIN after : i \notin DOMAIN before}

\* C24: every row a recipe create request makes is owned by the requester:
\* the new recipe, whether or not the payload has a user field, and every
\* tag and ingredient made for its payload; a request answered 201 made a
\* recipe.
C24_CreatedOwnedByRequester ==
    \A u \in Users, data \in OwnCreateData :
        LET r == ViewCreate(DB, u, data)
        IN  /\ \A i \in Made(r.db.recipes, recipes) : r.db.recipes[i].user = u
            /\ \A k \in LinkKeys :
                  \A i \in Made(r.db[k], DB[k]) : r.db[k][i].user = u
            /\ r.status = 201 =>
                  /\ r.id \in Made(r.db.recipes, recipes)
                  /\ r.db.recipes[r.id].user = u

\* a create by the first user whose payload named the second user made a
\* recipe and a tag, both owned by the first user
C24_Witness ==
    /\ last.op = "create" /\ last.status = 201
    /\ "user" \in DOMAIN last.params /\ last.params.user = "u2"
    /\ recipes[last.id].user = "u1"
    /\ \E i \in recipes[last.id].tags : i >= last.had.tags /\ tags[i].user = "u1"

----------------------------------------------------------------------------
(* C25 *)

\* every label a recipe is linked to is there and has the recipe's owner
OwnerConsistent(db) ==
    \A rid \in DOMAIN db.recipes, k \in LinkKeys :
        \A i \in db.recipes[rid][k] :
            i \in DOMAIN db[k] /\ db[k][i].user = db.recipes[rid].user

\* the rows that are not u's, labels and recipes with their links, are as
\* they were
OthersUntouched(u, r) ==
    /\ \A k \in LinkKeys :
          \A i \in DOMAIN DB[k] :
              DB[k][i].user # u => i \in DOMAIN r.db[k] /\ r.db[k][i] = DB[k][i]
    /\ \A i \in DOMAIN recipes :
          recipes[i].user # u =>
              i \in DOMAIN r.db.recipes /\ r.db.recipes[i] = recipes[i]

\* a recipe write by u on recipe rid that went through made and linked a
\* label of u for every listed name that only other users had
OwnLabelMade(u, rid, data, r) ==
    \A k \in LinkKeys \cap DOMAIN data :
        \A n \in NamesOf(data[k]) :
            (/\ \E i \in DOMAIN DB[k] : DB[k][i].name = n /\ DB[k][i].user # u
             /\ ~\E i \in DOMAIN DB[k] : DB[k][i].name = n /\ DB[k][i].user = u)
            => \E i \in Made(r.db[k], DB[k]) :
                  /\ r.db[k][i] = Label(n, u)
                  /\ i \in r.db.recipes[rid][k]

\* C25: in every reachable state every tag and ingredient linked to a recipe
\* is owned by the recipe's owner, and stays so whatever recipe write comes
\* next; a write that names a label only another user has makes a label of
\* the acting user and links that one, and leaves the other user's labels,
\* recipes and links as they were.
C25_OwnerConsistentLinks ==
    /\ OwnerConsistent(DB)
    /\ \A u \in Users :
          /\ \A data \in OwnCreateData :
                LET r == ViewCreate(DB, u, data)
                IN  /\ OwnerConsistent(r.db)
                    /\ OthersUntouched(u, r)
                    /\ r.status = 201 => OwnLabelMade(u, r.id, data, r)
          /\ \A rid \in RecipeIds, data \in OwnPatchData :
                LET r == ViewUpdate(DB, u, rid, data, TRUE)
                IN  /\ OwnerConsistent(r.db)
                    /\ OthersUntouched(u, r)
                    /\ r.status = 200 => OwnLabelMade(u, rid, data, r)

\* a recipe write of one user made and linked a tag whose name a tag of the
\* other user has, and that tag is still linked to the other user's recipe
C25_Witness ==
    /\ last.op \in {"create", "partial_update"} /\ last.status \in {200, 201}
    /\ \E i \in recipes[last.id].tags :
          /\ i >= last.had.tags
          /\ \E j \in DOMAIN tags, rid \in DOMAIN recipes :
                /\ j < last.had.tags
                /\ tags[j].name = tags[i].name
                /\ tags[j].user # tags[i].user
                /\ j \in recipes[rid].tags
                /\ recipes[rid].user = tags[j].user

----------------------------------------------------------------------------
(* C26 *)

\* every link of every recipe refers to a row of its label table
NoDangling(db) ==
    \A rid \in DOMAIN db.recipes, k \in LinkKeys :
        db.recipes[rid][k] \subseteq DOMAIN db[k]

\* the delete of label id of a kind by its owner took the label and its
\* links, and nothing else; by anyone else it took nothing
LabelGoneAlone(kind, u, id, r) ==
    IF id \in DOMAIN DB[kind] /\ DB[kind][id].user = u
    THEN /\ r.status = 204
         /\ r.db[kind] = Without(DB[kind], {id})
         /\ \A k \in LinkKeys \ {kind} : r.db[k] = DB[k]
         /\ DOMAIN r.db.recipes = DOMAIN recipes
         /\ \A rid \in DOMAIN recipes :
               /\ r.db.recipes[rid][kind] = recipes[rid][kind] \ {id}
               /\ Without(r.db.recipes[rid], {kind}) = Without(recipes[rid], {kind})
    ELSE r.status = 404 /\ r.db = DB

\* the delete of recipe rid by its owner took the recipe and its links, and
\* no label and no other recipe
RecipeGoneAlone(u, rid, r) ==
    /\ \A k \in LinkKeys : r.db[k] = DB[k]
    /\ IF rid \in DOMAIN recipes /\ recipes[rid].user = u
       THEN r.status = 204 /\ r.db.recipes = Without(recipes, {rid})
       ELSE r.status = 404 /\ r.db.recipes = recipes

\* C26: in every reachable state the links of every recipe refer to label
\* rows that are there. The delete of a tag or ingredient by its owner
\* removes it from the links of every recipe linked to it, deletes no recipe
\* and changes no other field or link of any recipe; by another user it is
\* answered 404 and changes nothing. The delete of a recipe removes the
\* recipe with its links and no label.
C26_NoDanglingLinks ==
    /\ NoDangling(DB)
    /\ \A u \in Users :
          /\ \A kind \in LinkKeys : \A id \in 1..DB[NextKey(kind)] :
                LET r == LabelDestroy(DB, kind, u, id)
                IN  NoDangling(r.db) /\ LabelGoneAlone(kind, u, id, r)
          /\ \A rid \in RecipeIds :
                LET r == ViewDestroy(DB, u, rid)
                IN  NoDangling(r.db) /\ RecipeGoneAlone(u, rid, r)

\* a tag that two recipes were linked to was deleted: both recipes are
\* there, one of them still linked to another tag and one to an ingredient
C26_Witness ==
    /\ last.op = "tag_destroy" /\ last.status = 204
    /\ "linked" \in DOMAIN last.params
    /\ Cardinality(last.params.linked) = 2
    /\ last.params.linked \subseteq DOMAIN recipes
    /\ \E i \in last.params.linked : recipes[i].tags # {}
    /\ \E i \in last.params.linked : recipes[i].ingredients # {}

----------------------------------------------------------------------------
(* C23 *)

\* the checks that raised so far
Failures == Len(cmd.raised)

\* k times the line of a failed check
Repeat(line, k) == [i \in 1..k |-> line]

\* where the command is agrees with what it did: every check was of the
\* default database; there is one check per failure and one more once a
\* check succeeded, none after that; one sleep of a second follows each
\* failure; availability is written after a check succeeded and at no
\* other time, and the command is done only then
WaitSafe ==
    /\ \A i \in DOMAIN cmd.checks : cmd.checks[i] = <<"default">>
    /\ Len(cmd.checks) = Failures + (IF cmd.db_up THEN 1 ELSE 0)
    /\ Len(cmd.sleeps) =
          Failures - (IF cmd.pc \in {"except", "sleep"} THEN 1 ELSE 0)
    /\ \A i \in DOMAIN cmd.sleeps : cmd.sleeps[i] = 1
    /\ \A i \in DOMAIN cmd.raised : cmd.raised[i] \in OperationalErrors
    /\ Available \in Range(cmd.out) => cmd.db_up /\ cmd.pc = "done"
    /\ ~cmd.db_up => cmd.pc \notin {"report", "done"}
    /\ cmd.pc = "done" =>
          /\ cmd.db_up
          /\ Len(cmd.checks) = Failures + 1
          /\ Len(cmd.sleeps) = Failures
          /\ cmd.out = <<Waiting>> \o Repeat(Unavailable, Failures) \o <<Available>>
          /\ Failures = 0 => Len(cmd.checks) = 1 /\ cmd.sleeps = <<>>

\* C23: when the first k checks raise an operational error, of either kind
\* in any mix, and check k+1 succeeds, wait_for_db makes exactly k+1 checks
\* of the default database, sleeps once after each of the k failures,
\* writes that the database is available only after the check that
\* succeeded, and terminates; with k = 0 it checks once and never sleeps.
\* As long as no check has succeeded it neither terminates nor writes that
\* the database is available.
C23_WaitForDb ==
    /\ []WaitSafe
    /\ (cmd.db_up ~> cmd.pc = "done")

\* the command is done after two checks that raised, one error of each
\* kind, and a third that succeeded
C23_Witness ==
    /\ cmd.pc = "done"
    /\ cmd.raised = <<"Psycopg2OperationalError", "OperationalError">>
    /\ Len(cmd.checks) = 3
    /\ Len(cmd.sleeps) = 2

----------------------------------------------------------------------------
(* C22 *)

\* the header is the key of a token that is there
ValidToken(cred) == \E i \in tokens : cred = TokenOf(i)

\* C22: every request to a recipe, tag, ingredient or /user/me/ endpoint
\* without a valid token (no header, or a key no token has) is answered 401
\* and leaves the recipes, labels, accounts and tokens as they were; with a
\* valid token none of them is answered 401. Account creation and token
\* issuance need no token: they are never answered 401, an unregistered
\* account is created (201) and the credentials of an account get a token
\* (200).
C22_AuthRequired ==
    /\ \A cred \in AuthCredentials :
          /\ \A req \in RecipeAppRequests :
                LET rs == Dispatch(DB, accounts, tokens, cred, req)
                IN  IF ValidToken(cred)
                    THEN \A r \in rs : r.status # 401
                    ELSE rs = {Result(DB, 401, 0, <<>>)}
          /\ \A req \in MeRequests :
                LET r == MeDispatch(accounts, tokens, cred, req)
                IN  IF ValidToken(cred) THEN r.status = 200
                    ELSE r.status = 401 /\ r.accounts = accounts
    /\ \A data \in AuthUserData :
          LET r == UserViewCreate(accounts, data)
          IN  /\ r.status # 401
              /\ Unregistered(data.email) => r.status = 201
    /\ \A data \in AuthTokenData :
          LET r == TokenViewCreate(accounts, data)
          IN  /\ r.status # 401
              /\ Credentials(data.email, data.password) => r.status = 200

\* a recipe create with the key of an account that has no token was
\* answered 401 while another account has a token and a recipe
C22_Witness ==
    /\ last.op = "create" /\ last.status = 401
    /\ last.params.token = TokenOf(2)
    /\ 2 \in DOMAIN accounts
    /\ tokens = {1}
    /\ \E i \in DOMAIN recipes : recipes[i].user = 1

====
